---- MODULE Spec2Model ----
(***************************************************************************)
(* Multi-agent coordination core of cerberus: the message channel and the  *)
(* BaseAgent inbound path (src/lib/agents/base-agent.ts), the consensus    *)
(* round (BaseAgent.gatherConsensus) and the intersection auction          *)
(* (src/lib/agents/intersection-agent.ts).                                 *)
(*                                                                         *)
(* Time is in milliseconds, as Date.now() is.  Each subsystem has its own  *)
(* specification (SpecMsg, SpecConsensus, SpecApproval, SpecIntersection); *)
(* the variables of the other subsystems stay at their initial values.     *)
(***************************************************************************)
EXTENDS Integers, Sequences, FiniteSets, Bags, TLC

VARIABLES
  now,            \* Date.now(), in ms
  \* ---- message channel and BaseAgent instances
  isActive,       \* BaseAgent.isActive, per agent instance
  subs,           \* channel callbacks registered by subscribeToMessages, per instance
  orchestrator,   \* module-level `orchestrator` of POST /api/agents/start
  simulationRunning, \* module-level flag of POST /api/simulation/start
  msgs,           \* coordination_messages rows, by msg_id
  nextMsg,        \* number of rows inserted so far
  cb,             \* position of each channel callback invocation <<msg, instance, sub>>
  processCount,   \* number of processMessage invocations, per msg_id
  threw,          \* callback invocations whose processMessage threw
  \* ---- one gatherConsensus call
  gcPc,           \* position of the call
  participants,   \* its participants argument
  timeoutMs,      \* its timeoutMs argument
  startTime,      \* its startTime
  responses,      \* its responses map, sender -> accepted
  rows,           \* acceptance / rejection rows carrying the proposalId, in insertion order
  proposals,      \* recipients the proposal was sent to
  polls,          \* select queries issued by the call
  approved,       \* the approved field of the result
  \* ---- the approval rule alone
  apPc, apParticipants, apResponses, apApprovals, apApproved,
  \* ---- one IntersectionAgent
  queuesByDirection,   \* IntersectionAgent.queuesByDirection
  currentNegotiations, \* IntersectionAgent.currentNegotiations
  fairnessTracker,     \* IntersectionAgent.fairnessTracker, in 1/PriorityScale points
  handlers,            \* the processMessage invocations: position and locals of each
  nDelivered,          \* messages handed to processMessage so far
  sent,                \* bag of the messages the agent has passed to sendMessage
  intersectionState,   \* the agent's intersection_states row
  preemptedAt,         \* Date.now() of the last emergency-preemption handled, -1 when none
  eventsLogged,        \* coordination_events rows inserted by the agent
  \* ---- emergency corridor: orchestrator, district, fleet and intersection agents
  districtAgents,      \* MasterOrchestratorAgent.districtAgents
  fleetAgents,         \* MasterOrchestratorAgent.fleetAgents
  emPc,                \* position of the orchestrator's handleEmergencyAlert
  emPlan,              \* routingPlan of the alert being handled
  emAlerts,            \* emergency-alert messages handed to the orchestrator
  emCorridor,          \* intersections within the corridor buffer of the last alert
  emAttempts,          \* bag of sendMessage calls: <<sender, recipient, kind, type, priority>>
  emInserts,           \* coordination_messages inserts not yet settled
  emErrors,            \* bag of recipients whose insert came back with an error (logged)
  emChannel,           \* stored messages not yet handed to their recipient
  emPreempted,         \* intersections that handled an emergency-preemption
  emThrew,             \* agents whose handler ended with an exception
  \* ---- functions checked on drawn inputs
  fbParticipants,      \* negotiation.participants of the request being resolved
  fbRuns,              \* crossing orders produced for it, one per run
  prPayload,           \* payload of a crossing-request, as reported by the vehicle
  prPenalty,           \* fairnessTracker entry of the payload's company
  prRequest,           \* the CrossingRequest built from it, once built
  prWait,              \* seconds waited at the auction round, -1 before the round
  dcTracker,           \* a fairnessTracker taken through auction rounds
  dcBase,              \* per company: its penalty right after its last adjustment
  dcN,                 \* per company: rounds since its last adjustment
  dcRounds,            \* rounds completed
  \* ---- POST /api/agents/stop
  systemMetrics,       \* simulation_status of the system_metrics rows it stored
  stopReplies,         \* the HTTP status of each of its replies so far
  \* ---- negotiations (enhanced orchestrator)
  negotiationRows,     \* rows of the negotiations table, by negotiation_id
  ngImplemented,       \* agreements handed to implementAgreement
  ngHandled,           \* negotiation-request messages handled so far
  \* ---- BaseAgent.sendMessage, call by call
  smCalls,             \* the calls made: arguments, message built, attempts, outcome
  smStore,             \* rows of coordination_messages stored by them
  \* ---- emergency corridors (enhanced orchestrator)
  ecCorridors,         \* rows of the emergency_corridors table
  ecBroadcasts,        \* corridor ids broadcast as emergency-corridor, one per alert
  ecHandled,           \* emergency-alert messages handled so far
  \* ---- a district agent
  daCapacity,          \* districtConfig.capacity
  vehicleCount,        \* DistrictAgent.vehicleCount
  congestionLevel,     \* DistrictAgent.congestionLevel, as <<numerator, denominator>>
  daSent,              \* messages sent by the entry and exit handlers, in order
  daHandled,           \* vehicle-entry / vehicle-exit messages handled so far
  \* ---- fleet coordinators and proposals
  cpActive,            \* isActive of each fleet coordinator
  cpMsgs,              \* proposal rows of coordination_messages, in insertion order
  cpReplies,           \* acceptance / rejection rows sent by the fleet coordinators
  \* ---- a fleet coordinator's privacy level
  privacyLevel,        \* fleetConfig.privacyLevel
  pvTimers,            \* pending setTimeout callbacks, in creation order
  pvBefore,            \* the level before the first elevation ("none": no elevation yet)
  pvReplies,           \* privacy-elevation-granted / -denied messages sent
  \* ---- the periodic tasks scheduled by start()
  ptActive,            \* isActive of each agent
  ptIntervals,         \* start() calls of each agent: sets of intervals registered
  ptRuns,              \* interval callbacks run so far: <<agent, task, effect>>
  \* ---- the simulation route and the agents start route, request by request
  ssRunning,           \* the simulation route's simulationRunning
  agentSystem,         \* the request whose agents agentSystem holds (0: {})
  ssCreated,           \* requests that constructed a set of agents
  ssActive,            \* agents with isActive: <<creating request, kind>>
  ssPc,                \* where each POST /api/simulation/start request is
  ssTimers,            \* requests whose auto-stop timer is pending
  ssStops,             \* DELETE requests and auto-stops that found a simulation running
  arOrchestrator,      \* the agents start route's `orchestrator` is set
  arActive,            \* kinds of the agents start route's agents with isActive
  arReplies            \* statuses answered by POST /api/agents/start

msgVars == <<isActive, subs, orchestrator, simulationRunning, msgs, nextMsg, cb,
             processCount, threw>>

gcVars == <<gcPc, participants, timeoutMs, startTime, responses, rows, proposals,
            polls, approved>>

apVars == <<apPc, apParticipants, apResponses, apApprovals, apApproved>>

ixVars == <<queuesByDirection, currentNegotiations, fairnessTracker, handlers,
            nDelivered, sent, intersectionState, preemptedAt, eventsLogged>>

emVars == <<districtAgents, fleetAgents, emPc, emPlan, emAlerts, emCorridor, emAttempts,
            emInserts, emErrors, emChannel, emPreempted, emThrew>>

fbVars == <<fbParticipants, fbRuns>>

prVars == <<prPayload, prPenalty, prRequest, prWait>>

dcVars == <<dcTracker, dcBase, dcN, dcRounds>>

fnVars == <<fbVars, prVars, dcVars>>

apiVars == <<systemMetrics, stopReplies>>

ngVars == <<negotiationRows, ngImplemented, ngHandled>>

smVars == <<smCalls, smStore>>

ecVars == <<ecCorridors, ecBroadcasts, ecHandled>>

daVars == <<daCapacity, vehicleCount, congestionLevel, daSent, daHandled>>

cpVars == <<cpActive, cpMsgs, cpReplies>>

pvVars == <<privacyLevel, pvTimers, pvBefore, pvReplies>>

ptVars == <<ptActive, ptIntervals, ptRuns>>

ssVars == <<ssRunning, agentSystem, ssCreated, ssActive, ssPc, ssTimers, ssStops,
            arOrchestrator, arActive, arReplies>>

moreVars == <<cpVars, pvVars, ptVars, ssVars>>

laterVars == <<ngVars, smVars, ecVars, daVars, moreVars>>

oldVars == <<now, msgVars, gcVars, apVars, ixVars, emVars, fnVars, apiVars, ngVars, smVars,
             ecVars, daVars>>

restVars == <<apiVars, laterVars>>

notMsgVars == <<gcVars, apVars, ixVars, emVars, fnVars, restVars>>

vars == <<now, msgVars, gcVars, apVars, ixVars, emVars, fnVars, restVars>>

(***************************************************************************)
(* Bounds of the model.                                                    *)
(***************************************************************************)
MaxNow == 2000        \* the clock stops advancing here
MaxStops == 2         \* POST /api/agents/stop requests followed
MaxStarts == 3        \* start() calls, over all agent instances

TickSteps == {1000}

\* ------------------------------------------------------------------------
\* Agent instances.  POST /api/agents/start and POST /api/simulation/start
\* each construct their own agent objects; MasterOrchestratorAgent always
\* takes the id 'master-orchestrator', fleet coordinators 'fleet-<company>'.
ApiAgents == {"api/master-orchestrator"}
SimAgents == {"sim/master-orchestrator", "sim/fleet-waymo"}
Instances == ApiAgents \cup SimAgents

ConfigId(i) ==
  CASE i = "api/master-orchestrator" -> "master-orchestrator"
    [] i = "sim/master-orchestrator" -> "master-orchestrator"
    [] i = "sim/fleet-waymo" -> "fleet-waymo"

AgentIds == {ConfigId(i) : i \in Instances}

\* msg_ids of the rows the channel model follows
MsgIds == {1}
TTLs == {0, 1}        \* ttl of a message, in seconds

NoMsg == [timestamp |-> 0, recipient |-> "", ttl |-> 0, status |-> "none"]

Events == MsgIds \X Instances \X (1..MaxStarts)

RECURSIVE SumOver(_, _)
SumOver(f, S) ==
  IF S = {} THEN 0
  ELSE LET x == CHOOSE y \in S : TRUE IN f[x] + SumOver(f, S \ {x})

\* start() calls made so far
Starts == SumOver(subs, Instances)

\* ------------------------------------------------------------------------
\* BaseAgent.handleIncomingMessage: the TTL test.
IsExpired_unitSlip(message, t) == (t - message.timestamp) > message.ttl * 1000 * 1000

IsExpired(message, t) == (t - message.timestamp) > message.ttl * 1000

\* BaseAgent.updateMessageStatus: update({status}).eq('msg_id', msgId).  The
\* store applies the update whatever the row's current status is.
updateMessageStatus_toggle(table, msgId, status) ==
  [table EXCEPT ![msgId].status = IF @ = status THEN "pending" ELSE status]

updateMessageStatus(table, msgId, status) ==
  [table EXCEPT ![msgId].status = status]

\* BaseAgent.start: isActive = true, then subscribeToMessages registers one
\* more callback on the channel; nothing ever unsubscribes.
startAgent(active, sb, i) ==
  <<[active EXCEPT ![i] = TRUE], [sb EXCEPT ![i] = @ + 1]>>

RECURSIVE startAll(_, _, _)
startAll(active, sb, S) ==
  IF S = {} THEN <<active, sb>>
  ELSE LET i == CHOOSE x \in S : TRUE
           r == startAgent(active, sb, i)
       IN startAll(r[1], r[2], S \ {i})

InitMsgVars ==
  /\ isActive = [i \in Instances |-> FALSE]
  /\ subs = [i \in Instances |-> 0]
  /\ orchestrator = FALSE
  /\ simulationRunning = FALSE
  /\ msgs = [m \in MsgIds |-> NoMsg]
  /\ nextMsg = 0
  /\ cb = [e \in Events |-> "none"]
  /\ processCount = [m \in MsgIds |-> 0]
  /\ threw = {}

\* The clock advances.
Tick ==
  /\ \E d \in TickSteps : now + d <= MaxNow /\ now' = now + d
  /\ UNCHANGED <<msgVars, notMsgVars>>

\* BaseAgent.start() called on instance i.
Start(i) ==
  /\ Starts < MaxStarts
  /\ LET r == startAgent(isActive, subs, i)
     IN isActive' = r[1] /\ subs' = r[2]
  /\ UNCHANGED <<notMsgVars, now, orchestrator, simulationRunning, msgs, nextMsg, cb,
                 processCount, threw>>

\* BaseAgent.stop() called on instance i.
Stop(i) ==
  /\ isActive[i]
  /\ isActive' = [isActive EXCEPT ![i] = FALSE]
  /\ UNCHANGED <<notMsgVars, now, subs, orchestrator, simulationRunning, msgs, nextMsg, cb,
                 processCount, threw>>

\* POST /api/agents/start: 409 when `orchestrator` is set, else construct and
\* start the agents.
AgentsStartRequest ==
  /\ ~orchestrator
  /\ Starts + Cardinality(ApiAgents) <= MaxStarts
  /\ orchestrator' = TRUE
  /\ LET r == startAll(isActive, subs, ApiAgents)
     IN isActive' = r[1] /\ subs' = r[2]
  /\ UNCHANGED <<notMsgVars, now, simulationRunning, msgs, nextMsg, cb, processCount, threw>>

\* POST /api/agents/stop: inserts a system_metrics row saying the system is
\* stopped (the result of the insert is not looked at) and answers 200 with
\* success: true.  It calls no agent's stop() and does not touch the
\* `orchestrator` and `agents` of the start route's module.
AgentsStopRequest(stored) ==
  /\ Len(stopReplies) < MaxStops
  /\ systemMetrics' = IF stored THEN Append(systemMetrics, "stopped") ELSE systemMetrics
  /\ stopReplies' = Append(stopReplies, 200)
  /\ UNCHANGED <<now, msgVars, gcVars, apVars, ixVars, emVars, fnVars, laterVars>>

\* POST /api/simulation/start: 400 when simulationRunning, else construct and
\* start the agents and set the flag.
SimulationStartRequest ==
  /\ ~simulationRunning
  /\ Starts + Cardinality(SimAgents) <= MaxStarts
  /\ simulationRunning' = TRUE
  /\ LET r == startAll(isActive, subs, SimAgents)
     IN isActive' = r[1] /\ subs' = r[2]
  /\ UNCHANGED <<notMsgVars, now, orchestrator, msgs, nextMsg, cb, processCount, threw>>

\* The filter of the subscription of instance i, `recipient=eq.${this.config.id}`,
\* applied to an inserted row.
MatchesFilter_any(i, recipient) == TRUE

MatchesFilter(i, recipient) == ConfigId(i) = recipient

\* A row is inserted into coordination_messages (BaseAgent.sendMessage of some
\* sender: timestamp = now, status pending).  The channel hands the INSERT to
\* every callback registered with filter recipient=eq.<id>.
InsertMessage(recipient, ttl) ==
  /\ nextMsg < Cardinality(MsgIds)
  /\ nextMsg' = nextMsg + 1
  /\ LET m == nextMsg + 1 IN
     /\ msgs' = [msgs EXCEPT ![m] = [timestamp |-> now, recipient |-> recipient,
                                     ttl |-> ttl, status |-> "pending"]]
     /\ cb' = [e \in Events |->
                 IF e[1] = m /\ MatchesFilter(e[2], recipient) /\ e[3] <= subs[e[2]]
                 THEN "inflight" ELSE cb[e]]
  /\ UNCHANGED <<notMsgVars, now, isActive, subs, orchestrator, simulationRunning,
                 processCount, threw>>

\* The test the channel callback makes when an event arrives: the agent's
\* isActive flag at that moment (set by start, cleared by stop).
ShouldHandle_always(active, i) == TRUE

ShouldHandle(active, i) == active[i]

\* The channel callback of subscribeToMessages runs for event e: nothing when
\* the agent is inactive, else handleIncomingMessage up to its first await:
\* an expired message is marked expired, any other is handed to processMessage.
Deliver(e) ==
  /\ cb[e] = "inflight"
  /\ LET m == e[1]
         i == e[2]
     IN IF ~ShouldHandle(isActive, i)
        THEN /\ cb' = [cb EXCEPT ![e] = "skipped"]
             /\ UNCHANGED <<msgs, processCount>>
        ELSE IF IsExpired(msgs[m], now)
        THEN /\ msgs' = updateMessageStatus(msgs, m, "expired")
             /\ cb' = [cb EXCEPT ![e] = "expired"]
             /\ UNCHANGED processCount
        ELSE /\ processCount' = [processCount EXCEPT ![m] = @ + 1]
             /\ cb' = [cb EXCEPT ![e] = "running"]
             /\ UNCHANGED msgs
  /\ UNCHANGED <<notMsgVars, now, isActive, subs, orchestrator, simulationRunning, nextMsg, threw>>

\* processMessage returns: handleIncomingMessage marks the message delivered.
HandlerReturns(e) ==
  /\ cb[e] = "running"
  /\ msgs' = updateMessageStatus(msgs, e[1], "delivered")
  /\ cb' = [cb EXCEPT ![e] = "delivered"]
  /\ UNCHANGED <<notMsgVars, now, isActive, subs, orchestrator, simulationRunning, nextMsg,
                 processCount, threw>>

\* processMessage throws: neither handleIncomingMessage nor the callback has a
\* try/catch, so the callback's promise rejects and no status is written.
HandlerThrows(e) ==
  /\ cb[e] = "running"
  /\ threw' = threw \cup {e}
  /\ cb' = [cb EXCEPT ![e] = "rejected"]
  /\ UNCHANGED <<notMsgVars, now, isActive, subs, orchestrator, simulationRunning, msgs, nextMsg,
                 processCount>>


\* ------------------------------------------------------------------------
\* BaseAgent.gatherConsensus.
MaxRows == 2          \* acceptance / rejection rows inserted for the proposal

\* Math.ceil(a / b) for naturals a, b > 0
CeilDiv(a, b) == (a + b - 1) \div b

\* Math.ceil(participants.length * 0.7)
QuorumCount_floor(n) == (7 * n) \div 10

QuorumCount(n) == CeilDiv(7 * n, 10)

\* Math.ceil(responses.size * 0.51)
ApprovalCount_half(size) == CeilDiv(size, 2)

ApprovalCount(size) == CeilDiv(51 * size, 100)

\* approvals >= Math.ceil(responses.size * 0.51)
IsApproved(approvals, size) == approvals >= ApprovalCount(size)

Fleets == <<"fleet-waymo", "fleet-zoox", "fleet-cruise">>
\* the participants arguments tried: the first n fleets
ParticipantSets == {{Fleets[k] : k \in 1..n} : n \in 0..Len(Fleets)}
\* senders of acceptance / rejection rows: the fleets and one agent that is
\* not a participant
Senders == {Fleets[k] : k \in 1..Len(Fleets)} \cup {"district-soma"}
Timeouts == {0, 100, 200}
PollIntervalMs == 100
\* how long a timer or a store round trip may take beyond its minimum
Delays == {0, 100}

EmptyMap == [x \in {} |-> TRUE]

\* data.forEach(msg => responses.set(msg.sender, msg.message_type === 'acceptance'))
RECURSIVE SetAll(_, _)
SetAll(resp, data) ==
  IF data = <<>> THEN resp
  ELSE SetAll((Head(data).sender :> (Head(data).message_type = "acceptance")) @@ resp,
              Tail(data))

\* the orders in which a select without ORDER BY may return the rows
Orderings(sq) ==
  {p \in [1..Len(sq) -> 1..Len(sq)] : \A i, j \in 1..Len(sq) : i # j => p[i] # p[j]}

Reorder(sq, p) == [i \in 1..Len(sq) |-> sq[p[i]]]

\* Array.from(responses.values()).filter(v => v).length
Approvals(resp) == Cardinality({x \in DOMAIN resp : resp[x]})

InitGcVars ==
  /\ gcPc = "idle"
  /\ participants = {}
  /\ timeoutMs = 0
  /\ startTime = 0
  /\ responses = EmptyMap
  /\ rows = <<>>
  /\ proposals = {}
  /\ polls = 0
  /\ approved = FALSE

\* gatherConsensus(proposal, P, t) is called: the proposal is broadcast.
GatherConsensus(P, t) ==
  /\ gcPc = "idle"
  /\ participants' = P
  /\ timeoutMs' = t
  /\ proposals' = P
  /\ gcPc' = "broadcast"
  /\ UNCHANGED <<now, startTime, responses, rows, polls, approved, msgVars, apVars, ixVars, emVars, fnVars, restVars>>

\* the broadcast's sends have settled: startTime = Date.now()
BroadcastDone ==
  /\ gcPc = "broadcast"
  /\ \E d \in Delays : now' = now + d
  /\ startTime' = now'
  /\ gcPc' = "loop"
  /\ UNCHANGED <<participants, timeoutMs, responses, rows, proposals, polls, approved,
                 msgVars, apVars, ixVars, emVars, fnVars, restVars>>

\* while (Date.now() - startTime < timeoutMs): issue the select, or leave the
\* loop and compute the result.
LoopTest ==
  /\ gcPc = "loop"
  /\ IF now - startTime < timeoutMs
     THEN /\ gcPc' = "query"
          /\ polls' = polls + 1
          /\ UNCHANGED approved
     ELSE /\ gcPc' = "done"
          /\ approved' = IsApproved(Approvals(responses), Cardinality(DOMAIN responses))
          /\ UNCHANGED polls
  /\ UNCHANGED <<now, participants, timeoutMs, startTime, responses, rows, proposals,
                 msgVars, apVars, ixVars, emVars, fnVars, restVars>>

\* the select returns (data is null when the store fails): the rows are put
\* into responses; at quorum the loop breaks and the result is computed, else
\* the 100 ms timer is set.
QueryReturns ==
  /\ gcPc = "query"
  /\ \E d \in Delays : now' = now + d
  /\ \E ok \in BOOLEAN : \E p \in Orderings(rows) :
       LET resp == IF ok THEN SetAll(responses, Reorder(rows, p)) ELSE responses
       IN /\ responses' = resp
          /\ IF Cardinality(DOMAIN resp) >= QuorumCount(Cardinality(participants))
             THEN /\ gcPc' = "done"
                  /\ approved' = IsApproved(Approvals(resp), Cardinality(DOMAIN resp))
             ELSE /\ gcPc' = "sleep"
                  /\ UNCHANGED approved
  /\ UNCHANGED <<participants, timeoutMs, startTime, rows, proposals, polls,
                 msgVars, apVars, ixVars, emVars, fnVars, restVars>>

\* the setTimeout(resolve, 100) timer fires
SleepDone ==
  /\ gcPc = "sleep"
  /\ \E d \in Delays : now' = now + PollIntervalMs + d
  /\ gcPc' = "loop"
  /\ UNCHANGED <<participants, timeoutMs, startTime, responses, rows, proposals, polls,
                 approved, msgVars, apVars, ixVars, emVars, fnVars, restVars>>

\* some agent answers the proposal: an acceptance or rejection row carrying
\* the proposalId is inserted.
Respond(sender, type) ==
  /\ gcPc \in {"broadcast", "loop", "query", "sleep"}
  /\ Len(rows) < MaxRows
  /\ rows' = Append(rows, [sender |-> sender, message_type |-> type])
  /\ UNCHANGED <<now, gcPc, participants, timeoutMs, startTime, responses, proposals,
                 polls, approved, msgVars, apVars, ixVars, emVars, fnVars, restVars>>

\* ------------------------------------------------------------------------
\* The approval rule alone, over response counts.
MaxResponses == 52    \* responses received

InitApVars ==
  /\ apPc = "idle"
  /\ apParticipants = 0
  /\ apResponses = 0
  /\ apApprovals = 0
  /\ apApproved = FALSE

\* a round of n participants has reached quorum with r responses, a of them
\* acceptances
ApRound(n, r, a) ==
  /\ apPc = "idle"
  /\ r >= QuorumCount(n)
  /\ apParticipants' = n
  /\ apResponses' = r
  /\ apApprovals' = a
  /\ apPc' = "quorum"
  /\ UNCHANGED <<now, apApproved, msgVars, gcVars, ixVars, emVars, fnVars, restVars>>

\* const approved = approvals >= Math.ceil(responses.size * 0.51)
ApDecide ==
  /\ apPc = "quorum"
  /\ apApproved' = IsApproved(apApprovals, apResponses)
  /\ apPc' = "done"
  /\ UNCHANGED <<now, apParticipants, apResponses, apApprovals, msgVars, gcVars, ixVars, emVars, fnVars, restVars>>


\* ------------------------------------------------------------------------
\* IntersectionAgent.
MaxMessages == 3      \* messages handed to the agent's processMessage

\* priorities and penalties are kept as integers, in 1/PriorityScale points
PriorityScale == 2400

\* initializeQueues: the eight directions, in Map insertion order
DirectionOrder == <<"north", "south", "east", "west",
                    "northeast", "northwest", "southeast", "southwest">>
Directions == {DirectionOrder[k] : k \in 1..Len(DirectionOrder)}

Vehicles == {"v1", "v2"}
Companies == {"waymo", "zoox"}
\* payload.direction of the crossing requests tried; "up" names no queue
PayloadDirections == {"north", "east", "up"}
\* the crossing requests tried: <<payload.vehicleId, payload.direction>>
CrossingRequests == {<<"v1", "north">>, <<"v2", "east">>, <<"v2", "up">>}
\* payload.duration of the emergency-preemption messages tried, in seconds
Durations == {1}

\* the crossing-request payloads tried, one shape per vehicle
Payload(v, dir) ==
  IF v = "v1"
  THEN [vehicleId |-> v, company |-> "waymo", waitTime |-> 0, passengers |-> 0,
        batteryLevel |-> 100, direction |-> dir]
  ELSE [vehicleId |-> v, company |-> "zoox", waitTime |-> 0, passengers |-> 2,
        batteryLevel |-> 15, direction |-> dir]

Max(a, b) == IF a >= b THEN a ELSE b

\* IntersectionAgent.calculatePriority, with payload.waitTime in seconds
calculatePriority(payload, tracker) ==
  Max(0, (payload.waitTime * 10 * PriorityScale) \div 60
         + payload.passengers * 5 * PriorityScale
         + (IF payload.batteryLevel < 20 THEN 50 * PriorityScale ELSE 0)
         - tracker[payload.company])

\* handleCrossingRequest: the CrossingRequest built from the payload at time t
\* (x || d gives d when x is 0); ref stands for the identity of the object
NewRequest(ref, payload, t, tracker) ==
  [ref |-> ref, vehicleId |-> payload.vehicleId, company |-> payload.company,
   arrivalTime |-> t, waitTime |-> 0,
   priority |-> calculatePriority(payload, tracker),
   passengers |-> payload.passengers,
   batteryLevel |-> IF payload.batteryLevel = 0 THEN 100 ELSE payload.batteryLevel,
   direction |-> payload.direction]

\* shouldNegotiate: at least two non-empty queues and no negotiation in flight
shouldNegotiate_noGuard(queues, negotiations) ==
  Cardinality({d \in Directions : Len(queues[d]) > 0}) >= 2

shouldNegotiate(queues, negotiations) ==
  /\ Cardinality({d \in Directions : Len(queues[d]) > 0}) >= 2
  /\ Cardinality(negotiations) = 0

\* runAuctionNegotiation: req.waitTime and req.priority are updated in place
UpdateRequest(req, t, tracker) ==
  LET w == (t - req.arrivalTime) \div 1000
  IN [req EXCEPT !.waitTime = w,
                 !.priority = calculatePriority([req EXCEPT !.waitTime = w], tracker)]

UpdateQueues(queues, t, tracker) ==
  [d \in Directions |->
     [k \in 1..Len(queues[d]) |-> UpdateRequest(queues[d][k], t, tracker)]]

\* allRequests: the queues' requests, queue after queue
RECURSIVE CollectFrom(_, _)
CollectFrom(queues, k) ==
  IF k > Len(DirectionOrder) THEN <<>>
  ELSE queues[DirectionOrder[k]] \o CollectFrom(queues, k + 1)

AllRequests(queues) == CollectFrom(queues, 1)

InQueues(queues, v) ==
  \E d \in Directions : \E k \in 1..Len(queues[d]) : queues[d][k].vehicleId = v

\* queue.findIndex(r => r.vehicleId === vehicleId), queue.splice(index, 1)
RECURSIVE RemoveFirst(_, _)
RemoveFirst(queue, v) ==
  IF queue = <<>> THEN <<>>
  ELSE IF Head(queue).vehicleId = v THEN Tail(queue)
  ELSE <<Head(queue)>> \o RemoveFirst(Tail(queue), v)

RemoveVehicle_keeps(queues, v) == queues

RemoveVehicle(queues, v) == [d \in Directions |-> RemoveFirst(queues[d], v)]

\* executeCrossingOrder's loop, run from the head of `order` up to the first
\* vehicle found in a queue (whose permission is then sent and awaited) or to
\* the end of the order.
RECURSIVE ExecLoop(_, _)
ExecLoop(queues, order) ==
  IF order = <<>> THEN [queues |-> queues, found |-> "none", rest |-> <<>>]
  ELSE IF InQueues(queues, Head(order))
       THEN [queues |-> RemoveVehicle(queues, Head(order)), found |-> Head(order),
             rest |-> Tail(order)]
       ELSE ExecLoop(queues, Tail(order))

\* updateFairnessScores: the adjustments are added, then every tracked
\* penalty is multiplied by 0.95
Decay_none(value) == value

Decay(value) == (value * 95) \div 100

updateFairnessScores(tracker, adjustments) ==
  [c \in Companies |->
     Decay(tracker[c] + (IF c \in DOMAIN adjustments THEN adjustments[c] ELSE 0))]

\* what makeDecision can produce: a rejection (getNemotronClient throws), a
\* value without crossingOrder (NemotronClient.reason's {error: ...}, or parsed
\* JSON that lacks the key), or parsed JSON with a crossingOrder
\* (a penalty for waymo is tried with the order v1, v2 only)
NoAdjustments == [c \in {} |-> 0]
AdjustmentChoices == {NoAdjustments, [c \in {"waymo"} |-> 20 * PriorityScale]}
CrossingOrders ==
  {<<>>} \cup {<<v>> : v \in Vehicles}
         \cup {o \in Vehicles \X Vehicles : o[1] # o[2]}
FailureKinds == {"throw", "noOrder"}
Decisions ==
  [kind : FailureKinds, crossingOrder : {<<>>}, waitTimes : {FALSE},
   hasAdjustments : {FALSE}, fairnessAdjustments : {NoAdjustments}]
  \cup
  [kind : {"ok"}, crossingOrder : CrossingOrders, waitTimes : BOOLEAN,
   hasAdjustments : {TRUE}, fairnessAdjustments : {NoAdjustments}]
  \cup
  [kind : {"ok"}, crossingOrder : {<<"v1", "v2">>}, waitTimes : {TRUE},
   hasAdjustments : {TRUE}, fairnessAdjustments : AdjustmentChoices]
  \cup
  [kind : {"ok"}, crossingOrder : CrossingOrders, waitTimes : {TRUE},
   hasAdjustments : {FALSE}, fairnessAdjustments : {NoAdjustments}]

\* messages passed to sendMessage: <<recipient, message_type, payload.type, priority>>
Permission(v) == <<v, "info", "crossing-permission", 10>>
Yield_asPermission(v) == <<v, "emergency", "emergency-yield", 10>>

Yield(v) == <<v, "emergency", "emergency-yield", 1000>>
Ack(to) == <<to, "info", "crossing-request-ack", 5>>
StatusResponse(to) == <<to, "info", "status-response", 5>>

\* queue.forEach(async request => sendMessage(yield)) over every queue
RECURSIVE AddYields(_, _)
AddYields(bag, requests) ==
  IF requests = <<>> THEN bag
  ELSE AddYields(bag (+) SetToBag({Yield(Head(requests).vehicleId)}), Tail(requests))

HandlerIds == 1..MaxMessages
NoHandler ==
  [pc |-> "none", sender |-> "", negotiationId |-> -1,
   allRequests |-> <<>>, decision |-> "none", crossingOrder |-> <<>>, order |-> <<>>,
   granted |-> <<>>,
   hasAdjustments |-> FALSE, fairnessAdjustments |-> NoAdjustments]

InitIxVars ==
  /\ queuesByDirection = [d \in Directions |-> <<>>]
  /\ currentNegotiations = {}
  /\ fairnessTracker = [c \in Companies |-> 0]
  /\ handlers = [h \in HandlerIds |-> NoHandler]
  /\ nDelivered = 0
  /\ sent = EmptyBag
  /\ intersectionState = [emergency_active |-> FALSE, emergency_duration |-> 0]
  /\ preemptedAt = -1
  /\ eventsLogged = 0

ixFrame == UNCHANGED <<msgVars, gcVars, apVars, emVars, fnVars, restVars>>

\* an exception leaves runAuctionNegotiation: the finally block deletes the
\* negotiation id, and nothing up to the channel callback catches it
AuctionThrows_keepsMarker(h, rec) ==
  /\ UNCHANGED currentNegotiations
  /\ handlers' = [handlers EXCEPT ![h] =
       [NoHandler EXCEPT !.decision = rec.decision, !.pc = "threw"]]

AuctionThrows(h, rec) ==
  /\ currentNegotiations' = currentNegotiations \ {rec.negotiationId}
  /\ handlers' = [handlers EXCEPT ![h] =
       [NoHandler EXCEPT !.decision = rec.decision, !.pc = "threw"]]

\* executeCrossingOrder from `order` on, then updateFairnessScores and the
\* coordination_events insert
ContinueAuction(h, rec, order, hasWaitTimes) ==
  LET r == ExecLoop(queuesByDirection, order) IN
  /\ queuesByDirection' = r.queues
  /\ IF r.found # "none"
     THEN IF hasWaitTimes
          THEN /\ sent' = sent (+) SetToBag({Permission(r.found)})
               /\ handlers' = [handlers EXCEPT ![h] =
                    [rec EXCEPT !.pc = "exec", !.order = r.rest,
                                !.granted = Append(rec.granted, r.found)]]
               /\ UNCHANGED <<currentNegotiations, fairnessTracker, eventsLogged>>
          ELSE \* waitTimes[vehicleId] on undefined: TypeError
               /\ AuctionThrows(h, rec)
               /\ UNCHANGED <<sent, fairnessTracker, eventsLogged>>
     ELSE IF ~rec.hasAdjustments
          THEN \* Object.entries(undefined): TypeError
               /\ AuctionThrows(h, rec)
               /\ UNCHANGED <<sent, fairnessTracker, eventsLogged>>
          ELSE /\ fairnessTracker' =
                    updateFairnessScores(fairnessTracker, rec.fairnessAdjustments)
               /\ eventsLogged' = eventsLogged + 1
               /\ handlers' = [handlers EXCEPT ![h] =
                    [rec EXCEPT !.pc = "log", !.order = <<>>]]
               /\ UNCHANGED <<sent, currentNegotiations>>

\* processMessage with a crossing-request: handleCrossingRequest up to its
\* first await (makeDecision when an auction starts, else the acknowledgment,
\* after which the handler only returns)
DeliverCrossingRequest(payload, sender) ==
  /\ nDelivered < MaxMessages
  /\ nDelivered' = nDelivered + 1
  /\ LET h == nDelivered + 1
         request == NewRequest(h, payload, now, fairnessTracker)
         rec == [NoHandler EXCEPT !.sender = sender]
     IN IF payload.direction \in Directions
        THEN LET pushed == [queuesByDirection EXCEPT
                              ![payload.direction] = Append(@, request)]
             IN IF shouldNegotiate(pushed, currentNegotiations)
                THEN LET updated == UpdateQueues(pushed, now, fairnessTracker)
                     IN /\ currentNegotiations' = currentNegotiations \cup {now}
                        /\ queuesByDirection' = updated
                        /\ handlers' = [handlers EXCEPT ![h] =
                             [rec EXCEPT !.pc = "decide", !.negotiationId = now,
                                         !.allRequests = AllRequests(updated)]]
                        /\ UNCHANGED sent
                ELSE /\ queuesByDirection' = pushed
                     /\ sent' = sent (+) SetToBag({Ack(sender)})
                     /\ handlers' = [handlers EXCEPT ![h] = [NoHandler EXCEPT !.pc = "done"]]
                     /\ UNCHANGED currentNegotiations
        ELSE /\ sent' = sent (+) SetToBag({Ack(sender)})
             /\ handlers' = [handlers EXCEPT ![h] = [NoHandler EXCEPT !.pc = "done"]]
             /\ UNCHANGED <<queuesByDirection, currentNegotiations>>
  /\ UNCHANGED <<now, fairnessTracker, intersectionState, preemptedAt, eventsLogged>>
  /\ ixFrame

\* makeDecision settles with decision d
DecisionReturns(h, d) ==
  /\ handlers[h].pc = "decide"
  /\ LET rec == [handlers[h] EXCEPT !.decision = d.kind,
                                    !.crossingOrder = d.crossingOrder,
                                    !.hasAdjustments = d.hasAdjustments,
                                    !.fairnessAdjustments = d.fairnessAdjustments]
     IN IF d.kind = "ok"
        THEN ContinueAuction(h, rec, d.crossingOrder, d.waitTimes)
        ELSE \* makeDecision rejects, or `for (... of undefined)`: TypeError
             /\ AuctionThrows(h, rec)
             /\ UNCHANGED <<queuesByDirection, sent, fairnessTracker, eventsLogged>>
  /\ UNCHANGED <<now, nDelivered, intersectionState, preemptedAt>>
  /\ ixFrame

\* the sendMessage of a crossing-permission settles: the loop goes on
PermissionSent(h) ==
  /\ handlers[h].pc = "exec"
  /\ ContinueAuction(h, handlers[h], handlers[h].order, TRUE)
  /\ UNCHANGED <<now, nDelivered, intersectionState, preemptedAt>>
  /\ ixFrame

\* the coordination_events insert settles: finally deletes the negotiation
\* id, handleCrossingRequest sends its acknowledgment and then only returns
NegotiationLogged(h) ==
  /\ handlers[h].pc = "log"
  /\ currentNegotiations' = currentNegotiations \ {handlers[h].negotiationId}
  /\ sent' = sent (+) SetToBag({Ack(handlers[h].sender)})
  /\ handlers' = [handlers EXCEPT ![h] = [NoHandler EXCEPT !.pc = "done"]]
  /\ UNCHANGED <<now, queuesByDirection, fairnessTracker, nDelivered,
                 intersectionState, preemptedAt, eventsLogged>>
  /\ ixFrame

\* processMessage with an emergency-preemption: handleEmergencyPreemption up
\* to the await of updateIntersectionState, after which it only returns
DeliverEmergencyPreemption(duration, sender) ==
  /\ nDelivered < MaxMessages
  /\ nDelivered' = nDelivered + 1
  /\ sent' = AddYields(sent, AllRequests(queuesByDirection))
  /\ queuesByDirection' = [d \in Directions |-> <<>>]
  /\ intersectionState' = [emergency_active |-> TRUE, emergency_duration |-> duration]
  /\ preemptedAt' = now
  /\ handlers' = [handlers EXCEPT ![nDelivered + 1] = [NoHandler EXCEPT !.pc = "done"]]
  /\ UNCHANGED <<now, currentNegotiations, fairnessTracker, eventsLogged>>
  /\ ixFrame

\* IntersectionAgent.messageHandlers.get(payload.type): the handler
\* registered by setupMessageHandlers, "none" for undefined
messageHandlers_catchAll(type) ==
  CASE type = "crossing-request" -> "handleCrossingRequest"
    [] type = "emergency-preemption" -> "handleEmergencyPreemption"
    [] OTHER -> "handleStatusQuery"

messageHandlers(type) ==
  CASE type = "crossing-request" -> "handleCrossingRequest"
    [] type = "emergency-preemption" -> "handleEmergencyPreemption"
    [] type = "status-query" -> "handleStatusQuery"
    [] OTHER -> "none"

\* payload types tried that setupMessageHandlers registers nothing for
UnhandledTypes == {"other"}

\* processMessage with a status-query (handleStatusQuery), or with a
\* payload.type that has no handler: `if (handler)` is false and
\* processMessage returns
DeliverOther(type, sender) ==
  /\ nDelivered < MaxMessages
  /\ nDelivered' = nDelivered + 1
  /\ handlers' = [handlers EXCEPT ![nDelivered + 1] = [NoHandler EXCEPT !.pc = "done"]]
  /\ IF messageHandlers(type) = "handleStatusQuery"
     THEN sent' = sent (+) SetToBag({StatusResponse(sender)})
     ELSE UNCHANGED sent
  /\ UNCHANGED <<now, queuesByDirection, currentNegotiations, fairnessTracker,
                 intersectionState, preemptedAt, eventsLogged>>
  /\ ixFrame

\* ------------------------------------------------------------------------
\* Emergency corridor: MasterOrchestratorAgent.handleEmergencyAlert, the
\* district and fleet handlers of emergency-corridor, and the intersections.
MaxAlerts == 1        \* emergency-alert messages handed to the orchestrator

EmDistricts == {"district-soma"}
EmFleets == {"fleet-waymo"}
EmIntersections == {"intersection-4th-king", "intersection-vanness-market"}

\* DistrictAgent.localIntersections: declared empty and assigned nowhere
localIntersections(d) == {}

\* routeEmergencyVehicle: getNemotronClient throws, reason() gives {error: ...}
\* (no corridor_path), or a plan whose corridor_path passes through `through`
RoutingPlans ==
  [kind : {"throw", "error"}, through : {{}}]
  \cup [kind : {"ok"}, through : SUBSET EmDistricts]

NoPlan == [kind |-> "none", through |-> {}]

\* BaseAgent.broadcast: one sendMessage per recipient, all started at once
BroadcastAttempts_twice(sender, recipients, type) ==
  SetToBag({<<sender, r, "emergency", type, 1000>> : r \in recipients})
    (+) SetToBag({<<sender, r, "emergency", type, 1000>> : r \in recipients})

BroadcastAttempts(sender, recipients, type) ==
  SetToBag({<<sender, r, "emergency", type, 1000>> : r \in recipients})

BroadcastInserts(sender, recipients, type, plan, alert) ==
  {[alert |-> alert, sender |-> sender, recipient |-> r, type |-> type, plan |-> plan] :
     r \in recipients}

InitEmVars ==
  /\ districtAgents = {}
  /\ fleetAgents = {}
  /\ emPc = "new"
  /\ emPlan = NoPlan
  /\ emAlerts = 0
  /\ emCorridor = {}
  /\ emAttempts = EmptyBag
  /\ emInserts = {}
  /\ emErrors = EmptyBag
  /\ emChannel = {}
  /\ emPreempted = {}
  /\ emThrew = {}

emFrame == UNCHANGED <<now, msgVars, gcVars, apVars, ixVars, fnVars, restVars>>

\* MasterOrchestratorAgent.start: initializeAgents loads the active district
\* and fleet coordinators of the agents table
InitializeAgents(districts, fleets) ==
  /\ emPc = "new"
  /\ emPc' = "idle"
  /\ districtAgents' = districts
  /\ fleetAgents' = fleets
  /\ UNCHANGED <<emPlan, emAlerts, emCorridor, emAttempts, emInserts, emErrors, emChannel,
                 emPreempted, emThrew>>
  /\ emFrame

\* processMessage with an emergency-alert: handleEmergencyAlert up to the
\* await of collectCityWideData / routeEmergencyVehicle
EmergencyAlert(corridor) ==
  /\ emPc = "idle"
  /\ emAlerts < MaxAlerts
  /\ emAlerts' = emAlerts + 1
  /\ emCorridor' = corridor
  /\ emPc' = "routing"
  /\ emPlan' = NoPlan
  /\ UNCHANGED <<districtAgents, fleetAgents, emAttempts, emInserts, emErrors, emChannel,
                 emPreempted, emThrew>>
  /\ emFrame

\* routeEmergencyVehicle settles: a rejection ends the handler, anything else
\* is broadcast as it is to districtAgents and fleetAgents
RoutingReturns(plan) ==
  /\ emPc = "routing"
  /\ IF plan.kind = "throw"
     THEN /\ emPc' = "idle"
          /\ emThrew' = emThrew \cup {"master-orchestrator"}
          /\ UNCHANGED <<emPlan, emAttempts, emInserts>>
     ELSE LET allAgents == districtAgents \cup fleetAgents IN
          /\ emPc' = "broadcast"
          /\ emPlan' = plan
          /\ emAttempts' = emAttempts
               (+) BroadcastAttempts("master-orchestrator", allAgents, "emergency-corridor")
          /\ emInserts' = emInserts
               \cup BroadcastInserts("master-orchestrator", allAgents, "emergency-corridor",
                                     plan, emAlerts)
          /\ UNCHANGED emThrew
  /\ UNCHANGED <<districtAgents, fleetAgents, emAlerts, emCorridor, emErrors, emChannel,
                 emPreempted>>
  /\ emFrame

\* sendMessage: the insert settles, with a row stored or with {error} logged
InsertSettles(m, ok) ==
  /\ m \in emInserts
  /\ emInserts' = emInserts \ {m}
  /\ IF ok
     THEN emChannel' = emChannel \cup {m} /\ UNCHANGED emErrors
     ELSE emErrors' = emErrors (+) SetToBag({m.recipient}) /\ UNCHANGED emChannel
  /\ UNCHANGED <<districtAgents, fleetAgents, emPc, emPlan, emAlerts, emCorridor,
                 emAttempts, emPreempted, emThrew>>
  /\ emFrame

\* Promise.all of the orchestrator's broadcast resolves; the
\* coordination_events insert follows and the handler returns
BroadcastCompletes ==
  /\ emPc = "broadcast"
  /\ \A m \in emInserts : m.sender # "master-orchestrator"
  /\ emPc' = "idle"
  /\ UNCHANGED <<districtAgents, fleetAgents, emPlan, emAlerts, emCorridor, emAttempts,
                 emInserts, emErrors, emChannel, emPreempted, emThrew>>
  /\ emFrame

\* a stored message is handed to its recipient's processMessage:
\* DistrictAgent.handleEmergencyCorridor, FleetCoordinatorAgent.handleEmergencyCorridor
\* (no vehicle of the fleet on the path), IntersectionAgent.handleEmergencyPreemption
EmDeliver(m) ==
  /\ m \in emChannel
  /\ emChannel' = emChannel \ {m}
  /\ IF m.recipient \in EmDistricts /\ m.type = "emergency-corridor"
     THEN IF m.plan.kind # "ok"
          THEN \* path.some on undefined: TypeError
               /\ emThrew' = emThrew \cup {m.recipient}
               /\ UNCHANGED <<emAttempts, emInserts, emPreempted>>
          ELSE IF m.recipient \in m.plan.through
          THEN /\ emAttempts' = emAttempts
                    (+) BroadcastAttempts(m.recipient, localIntersections(m.recipient),
                                          "emergency-preemption")
               /\ emInserts' = emInserts
                    \cup BroadcastInserts(m.recipient, localIntersections(m.recipient),
                                          "emergency-preemption", m.plan, m.alert)
               /\ UNCHANGED <<emThrew, emPreempted>>
          ELSE UNCHANGED <<emAttempts, emInserts, emThrew, emPreempted>>
     ELSE IF m.recipient \in EmIntersections /\ m.type = "emergency-preemption"
     THEN /\ emPreempted' = emPreempted \cup {m.recipient}
          /\ UNCHANGED <<emAttempts, emInserts, emThrew>>
     ELSE UNCHANGED <<emAttempts, emInserts, emThrew, emPreempted>>
  /\ UNCHANGED <<districtAgents, fleetAgents, emPc, emPlan, emAlerts, emCorridor, emErrors>>
  /\ emFrame

\* ------------------------------------------------------------------------
\* The rule-based resolution of an intersection negotiation
\* (processIntersectionNegotiation with no usable AI decision).
MaxRuns == 2          \* resolutions of the same request

\* the vehicles of the scenarios tried, as the intersection would hold them:
\* waitTime in seconds, arrivalTime in seconds before the resolution
FbRequest(v) ==
  CASE v = "veh-90s" -> [vehicleId |-> v, company |-> "zoox", waitTime |-> 90,
                         passengers |-> 0, batteryLevel |-> 100, arrivalTime |-> -90]
    [] v = "veh-40s" -> [vehicleId |-> v, company |-> "zoox", waitTime |-> 40,
                         passengers |-> 0, batteryLevel |-> 100, arrivalTime |-> -40]
    [] v = "veh-10s" -> [vehicleId |-> v, company |-> "zoox", waitTime |-> 10,
                         passengers |-> 0, batteryLevel |-> 100, arrivalTime |-> -10]
    [] v = "veh-A" -> [vehicleId |-> v, company |-> "waymo", waitTime |-> 60,
                       passengers |-> 0, batteryLevel |-> 100, arrivalTime |-> -60]
    [] v = "veh-B" -> [vehicleId |-> v, company |-> "zoox", waitTime |-> 30,
                       passengers |-> 0, batteryLevel |-> 100, arrivalTime |-> -30]

\* fairness penalties of the scenarios: 20 points on veh-A's company
FbTracker == [c \in Companies |-> IF c = "waymo" THEN 20 * PriorityScale ELSE 0]

FbScenarios == {{"veh-90s", "veh-10s", "veh-40s"}, {"veh-A", "veh-B"}}

\* the orders in which a request can list the vehicles of a scenario
FbParticipantLists ==
  UNION {{p \in [1..Cardinality(S) -> S] : \A i, j \in 1..Cardinality(S) :
                                              i # j => p[i] # p[j]} : S \in FbScenarios}

\* Math.floor(Math.random() * 120) + 10: lowest, a middle and highest value
RandomWaits == {10, 70, 129}

\* Array.prototype.sort((a, b) => waitTimes[b] - waitTimes[a]): stable,
\* descending by the drawn wait time
RECURSIVE InsertByWait(_, _, _)
InsertByWait(sorted, p, waitTimes) ==
  IF sorted = <<>> THEN <<p>>
  ELSE IF waitTimes[p] > waitTimes[Head(sorted)] THEN <<p>> \o sorted
  ELSE <<Head(sorted)>> \o InsertByWait(Tail(sorted), p, waitTimes)

RECURSIVE SortByWait(_, _)
SortByWait(list, waitTimes) ==
  IF list = <<>> THEN <<>>
  ELSE InsertByWait(SortByWait(SubSeq(list, 1, Len(list) - 1), waitTimes),
                    list[Len(list)], waitTimes)

fbFrame == UNCHANGED <<now, msgVars, gcVars, apVars, ixVars, emVars, prVars, dcVars, restVars>>

\* processIntersectionNegotiation(negotiation, aiDecision) with aiDecision
\* null or {error}: wait times are drawn, the participants sorted by them
ProcessIntersectionNegotiation(waitTimes) ==
  /\ Len(fbRuns) < MaxRuns
  /\ fbRuns' = Append(fbRuns, SortByWait(fbParticipants, waitTimes))
  /\ UNCHANGED fbParticipants
  /\ fbFrame

\* ------------------------------------------------------------------------
\* The priority of one crossing request: built by handleCrossingRequest,
\* recomputed by runAuctionNegotiation.
PrPassengers == {0, 1, 4}
PrBatteryLevels == {0, 10, 19, 20, 100}
PrPenalties == {-20 * PriorityScale, 0, 20 * PriorityScale, 400 * PriorityScale}
PrWaits == {0, 30, 90, 600}

PrPayloads ==
  [vehicleId : {"v1"}, company : {"waymo"}, waitTime : {0}, passengers : PrPassengers,
   batteryLevel : PrBatteryLevels, direction : {"north"}]

PrTracker == [c \in Companies |-> IF c = "waymo" THEN prPenalty ELSE 0]

NoRequest == [vehicleId |-> "none"]

prFrame == UNCHANGED <<now, msgVars, gcVars, apVars, ixVars, emVars, fbVars, dcVars, restVars>>

\* handleCrossingRequest builds the request (arrival at time 0)
BuildRequest ==
  /\ prRequest = NoRequest
  /\ prRequest' = NewRequest(1, prPayload, 0, PrTracker)
  /\ UNCHANGED <<prPayload, prPenalty, prWait>>
  /\ prFrame

\* runAuctionNegotiation updates it `wait` seconds later
RecomputePriority(wait) ==
  /\ prRequest # NoRequest
  /\ prWait = -1
  /\ prWait' = wait
  /\ prRequest' = UpdateRequest(prRequest, wait * 1000, PrTracker)
  /\ UNCHANGED <<prPayload, prPenalty>>
  /\ prFrame

\* ------------------------------------------------------------------------
\* The fairness tracker over auction rounds (updateFairnessScores applied to
\* drawn trackers and adjustments).
MaxRounds == 2        \* auction rounds completed

DcPenalties ==
  {-20 * PriorityScale, 0, 20 * PriorityScale, 40 * PriorityScale, 400 * PriorityScale}

dcFrame == UNCHANGED <<now, msgVars, gcVars, apVars, ixVars, emVars, fbVars, prVars, restVars>>

\* an auction round completes with fairnessAdjustments = adjustments
CompleteRound(adjustments) ==
  /\ dcRounds < MaxRounds
  /\ dcRounds' = dcRounds + 1
  /\ dcTracker' = updateFairnessScores(dcTracker, adjustments)
  /\ dcBase' = [c \in Companies |->
                  IF c \in DOMAIN adjustments THEN dcTracker'[c] ELSE dcBase[c]]
  /\ dcN' = [c \in Companies |-> IF c \in DOMAIN adjustments THEN 0 ELSE dcN[c] + 1]
  /\ dcFrame

\* ------------------------------------------------------------------------
\* Negotiations of the enhanced orchestrator
\* (master-orchestrator-enhanced.ts): handleNegotiationRequest and the rows of
\* the negotiations table it updates.
MaxRequests == 2      \* negotiation-request messages handled

NgIds == {"negotiation-1", "negotiation-2"}
\* negotiationRows.status may hold these values (CHECK constraint)
NgStatuses ==
  {"initiated", "proposing", "counter_proposing", "voting", "finalizing",
   "completed", "failed", "timeout"}
NgTerminal == {"completed", "failed", "timeout"}

\* the proposals tried: the three flags scoreProposal reads
NgProposals ==
  { [reduces_congestion |-> FALSE, maintains_fairness |-> FALSE, minimal_disruption |-> FALSE],
    [reduces_congestion |-> TRUE, maintains_fairness |-> FALSE, minimal_disruption |-> FALSE],
    [reduces_congestion |-> TRUE, maintains_fairness |-> FALSE, minimal_disruption |-> TRUE],
    [reduces_congestion |-> TRUE, maintains_fairness |-> TRUE, minimal_disruption |-> FALSE] }

NoProposal == [none |-> TRUE]
NoRow == [status |-> "absent", final_agreement |-> NoProposal, current_proposal |-> NoProposal]

\* scoreProposal, in tenths: 0.5, plus 0.2, 0.2 and 0.1 for the flags, at most 1.0
scoreProposal(proposal) ==
  LET score == 5 + (IF proposal.reduces_congestion THEN 2 ELSE 0)
                 + (IF proposal.maintains_fairness THEN 2 ELSE 0)
                 + (IF proposal.minimal_disruption THEN 1 ELSE 0)
  IN IF score < 10 THEN score ELSE 10

\* generateCounterProposal: the original with the modifications added
generateCounterProposal(original) == [original |-> original, modifications |-> TRUE]

\* evaluateProposal: accept above 0.7, otherwise counter
evaluateProposal(proposal) ==
  IF scoreProposal(proposal) > 7
  THEN [accept |-> TRUE, counter |-> NoProposal]
  ELSE [accept |-> FALSE, counter |-> generateCounterProposal(proposal)]

\* update(...).eq('negotiation_id', id): applied to the row if there is one,
\* whatever its present status
acceptProposal(table, id, proposal) ==
  IF table[id].status = "absent" THEN table
  ELSE [table EXCEPT ![id].status = "completed", ![id].final_agreement = proposal]

counterProposal(table, id, counter) ==
  IF table[id].status = "absent" THEN table
  ELSE [table EXCEPT ![id].status = "counter_proposing", ![id].current_proposal = counter]

ngFrame == UNCHANGED <<now, msgVars, gcVars, apVars, ixVars, emVars, fnVars, apiVars, smVars, ecVars, daVars, moreVars>>

\* processMessage with a negotiation-request.  The counter update carries
\* current_round: supabase.rpc(...), a request builder and not a number: the
\* store either takes the update or rejects it, and the result is not read.
HandleNegotiationRequest(id, proposal, applied) ==
  /\ ngHandled < MaxRequests
  /\ ngHandled' = ngHandled + 1
  /\ LET evaluation == evaluateProposal(proposal)
     IN IF evaluation.accept
        THEN /\ negotiationRows' = acceptProposal(negotiationRows, id, proposal)
             /\ ngImplemented' = ngImplemented \cup {proposal}
        ELSE /\ negotiationRows' = IF applied
                                THEN counterProposal(negotiationRows, id, evaluation.counter)
                                ELSE negotiationRows
             /\ UNCHANGED ngImplemented
  /\ ngFrame

\* ------------------------------------------------------------------------
\* BaseAgent.sendMessage followed call by call.
MaxSends == 2         \* sendMessage calls followed

SmCallers == {"master-orchestrator", "intersection-market-powell"}
Omitted == -1
\* the priority and ttl arguments tried; Omitted stands for a missing argument
SmPriorities == {Omitted, 0, 1000}
SmTtls == {Omitted, 0}

DefaultPriority == 5
DefaultTtl == 60

\* a default parameter value replaces a missing argument only
WithDefault(arg, default) == IF arg = Omitted THEN default ELSE arg

\* the row sendMessage builds; uuidv4() is the number of the call
BuildMessage(id, caller, recipient, messageType, priority, ttl) ==
  [msg_id |-> id, sender |-> caller, recipient |-> recipient,
   message_type |-> messageType,
   priority |-> WithDefault(priority, DefaultPriority),
   ttl |-> WithDefault(ttl, DefaultTtl)]

smFrame == UNCHANGED <<now, msgVars, gcVars, apVars, ixVars, emVars, fnVars, apiVars, ngVars, ecVars, daVars, moreVars>>

\* sendMessage is called: the message is built and the insert is issued
SendMessage(caller, priority, ttl) ==
  /\ Len(smCalls) < MaxSends
  /\ smCalls' = Append(smCalls,
       [caller |-> caller, priority |-> priority, ttl |-> ttl,
        message |-> BuildMessage(Len(smCalls) + 1, caller, "fleet-waymo", "info",
                                 priority, ttl),
        attempts |-> 1, state |-> "inserting", failed |-> FALSE, logged |-> FALSE,
        returned |-> "nothing yet"])
  /\ UNCHANGED smStore
  /\ smFrame

\* the insert settles: on {error} one console.error; either way the promise
\* of sendMessage resolves with undefined
SendSettles(k, ok) ==
  /\ k \in 1..Len(smCalls)
  /\ smCalls[k].state = "inserting"
  /\ smCalls' = [smCalls EXCEPT ![k].state = "settled", ![k].failed = ~ok,
                                ![k].logged = ~ok, ![k].returned = "undefined"]
  /\ smStore' = IF ok THEN smStore \cup {smCalls[k].message} ELSE smStore
  /\ smFrame

\* ------------------------------------------------------------------------
\* Emergency corridors of the enhanced orchestrator
\* (master-orchestrator-enhanced.ts handleEmergencyAlert) and the rows of the
\* emergency_corridors table.
MaxCorridorAlerts == 3   \* emergency-alert messages handled

\* emergency_corridors.status may hold these values (CHECK constraint)
EcStatuses == {"planning", "activating", "active", "clearing", "completed", "cancelled"}
\* the column default, taken by an insert that names no status
EcDefaultStatus == "planning"

\* the active emergency_protocols row found for the emergency type: none, or
\* one with this corridor_duration_seconds
NoProtocol == -1
EcProtocols == {NoProtocol, 1, 2}

ecFrame == UNCHANGED <<now, msgVars, gcVars, apVars, ixVars, emVars, fnVars, apiVars,
                       ngVars, smVars, daVars, moreVars>>

\* processMessage with an emergency-alert.  Without a protocol the handler
\* returns; when the directions request rejects it ends there; else the
\* corridor row is inserted (corridor_id from Date.now(), no status given) and
\* the corridor is broadcast whether or not the row was stored.
EnhancedEmergencyAlert(protocol, routed, stored) ==
  /\ ecHandled < MaxCorridorAlerts
  /\ ecHandled' = ecHandled + 1
  /\ IF protocol = NoProtocol \/ ~routed
     THEN UNCHANGED <<ecCorridors, ecBroadcasts>>
     ELSE /\ ecCorridors' =
               IF stored /\ \A c \in ecCorridors : c.corridor_id # now
               THEN ecCorridors \cup
                      {[corridor_id |-> now, status |-> EcDefaultStatus, created_at |-> now,
                        estimated_duration_seconds |-> protocol]}
               ELSE ecCorridors
          /\ ecBroadcasts' = Append(ecBroadcasts, now)
  /\ ecFrame

\* ------------------------------------------------------------------------
\* DistrictAgent: vehicle-entry and vehicle-exit handling (listing of
\* district-agent.ts in DATABASE_SETUP.md).
MaxDistrictMessages == 3   \* vehicle-entry / vehicle-exit messages handled

\* districtConfig.capacity of the districts tried
DaCapacities == {10, 20}
\* vehicles.length found by monitorDistrictHealth
DaCounts == {0, 8, 9, 10, 17, 18, 19, 25}

Min(a, b) == IF a <= b THEN a ELSE b

\* updateCongestionLevel: Math.min(1, vehicleCount / capacity), kept as an
\* exact fraction
updateCongestionLevel(count, capacity) == <<Min(count, capacity), capacity>>

\* this.congestionLevel > 0.9
IsCongested_atLeast(level) == 10 * level[1] >= 9 * level[2]

IsCongested(level) == 10 * level[1] > 9 * level[2]

CongestionAlert(level, count) ==
  [recipient |-> "master-orchestrator", message_type |-> "info",
   type |-> "congestion-alert", level |-> level, vehicleCount |-> count, priority |-> 8]

daFrame == UNCHANGED <<now, msgVars, gcVars, apVars, ixVars, emVars, fnVars, apiVars,
                       ngVars, smVars, ecVars, moreVars>>

\* processMessage with a vehicle-entry
HandleVehicleEntry ==
  /\ daHandled < MaxDistrictMessages
  /\ daHandled' = daHandled + 1
  /\ vehicleCount' = vehicleCount + 1
  /\ congestionLevel' = updateCongestionLevel(vehicleCount', daCapacity)
  /\ daSent' = IF IsCongested(congestionLevel')
               THEN Append(daSent, CongestionAlert(congestionLevel', vehicleCount'))
               ELSE daSent
  /\ UNCHANGED daCapacity
  /\ daFrame

\* processMessage with a vehicle-exit
HandleVehicleExit ==
  /\ daHandled < MaxDistrictMessages
  /\ daHandled' = daHandled + 1
  /\ vehicleCount' = Max(0, vehicleCount - 1)
  /\ congestionLevel' = updateCongestionLevel(vehicleCount', daCapacity)
  /\ UNCHANGED <<daCapacity, daSent>>
  /\ daFrame

\* the 15 s timer: monitorDistrictHealth replaces vehicleCount by the number
\* of vehicle_states rows of the last minute
MonitorDistrictHealth(count) ==
  /\ vehicleCount' = count
  /\ congestionLevel' = updateCongestionLevel(count, daCapacity)
  /\ UNCHANGED <<daCapacity, daSent, daHandled>>
  /\ daFrame

\* ------------------------------------------------------------------------
\* Proposals: the broadcast of gatherConsensus and the fleet coordinator's
\* processMessage / handleCoordinationProposal.
MaxProposals == 3     \* proposal rows inserted

CpFleets == {"fleet-waymo", "fleet-zoox"}

\* payload.type of a message; a payload without the field gives undefined
PayloadType(payload) == IF "type" \in DOMAIN payload THEN payload.type ELSE "undefined"

\* the payload of the broadcast of gatherConsensus: { proposalId, proposal, timeout }
GcProposalPayload(proposalId) ==
  [proposalId |-> proposalId, proposal |-> "proposal", timeout |-> 5000]

\* a payload some sender builds for the fleet coordinator's handler
CoordinationProposalPayload(proposalId) ==
  [type |-> "coordination-proposal", proposalId |-> proposalId, proposal |-> "proposal"]

\* FleetCoordinatorAgent.setupMessageHandlers: messageHandlers.get(type)
fleetMessageHandlers(type) ==
  CASE type = "coordination-proposal" -> "handleCoordinationProposal"
    [] type = "emergency-corridor" -> "handleEmergencyCorridor"
    [] type = "rebalancing-request" -> "handleRebalancingRequest"
    [] type = "fleet-status-query" -> "handleFleetStatusQuery"
    [] type = "privacy-negotiation" -> "handlePrivacyNegotiation"
    [] OTHER -> "none"

\* what handleCoordinationProposal finds: the privacy test fails, or
\* makeDecision accepts or rejects
CpOutcomes == {"privacy", "accept", "reject"}

cpFrame == UNCHANGED <<oldVars, pvVars, ptVars, ssVars>>

\* start() of a fleet coordinator
CpStart(f) ==
  /\ ~cpActive[f]
  /\ cpActive' = [cpActive EXCEPT ![f] = TRUE]
  /\ UNCHANGED <<cpMsgs, cpReplies>>
  /\ cpFrame

\* sendMessage(recipient, 'proposal', payload, 10) by `sender`: the row is
\* inserted and the recipient's callback takes it if the recipient is active
CpRow(sender, recipient, payload, active) ==
  [sender |-> sender, recipient |-> recipient, message_type |-> "proposal",
   payload |-> payload, status |-> "pending",
   cb |-> IF active[recipient] THEN "inflight" ELSE "skipped"]

\* gatherConsensus of the orchestrator: the proposal is broadcast to the
\* participants P under a fresh proposalId
GatherConsensusBroadcast(P) ==
  /\ P # {}
  \* one call of gatherConsensus is followed
  /\ \A k \in 1..Len(cpMsgs) : "type" \in DOMAIN cpMsgs[k].payload
  /\ Len(cpMsgs) + Cardinality(P) <= MaxProposals
  /\ LET id == Len(cpMsgs) + 1
         RECURSIVE send(_, _)
         send(ms, S) ==
           IF S = {} THEN ms
           ELSE LET f == CHOOSE x \in S : TRUE
                IN send(Append(ms, CpRow("master-orchestrator", f, GcProposalPayload(id),
                                         cpActive)), S \ {f})
     IN cpMsgs' = send(cpMsgs, P)
  /\ UNCHANGED <<cpActive, cpReplies>>
  /\ cpFrame

\* a proposal whose payload names the type coordination-proposal is sent to f
SendCoordinationProposal(f) ==
  /\ Len(cpMsgs) < MaxProposals
  /\ cpMsgs' = Append(cpMsgs, CpRow("master-orchestrator", f,
                                    CoordinationProposalPayload(Len(cpMsgs) + 1), cpActive))
  /\ UNCHANGED <<cpActive, cpReplies>>
  /\ cpFrame

\* the fleet coordinator's callback runs for row k: processMessage looks the
\* handler up by payload.type; handleCoordinationProposal sends one rejection
\* or acceptance to message.sender; the row is then marked delivered
FleetProcessMessage(k, outcome) ==
  /\ k \in 1..Len(cpMsgs)
  /\ cpMsgs[k].cb = "inflight"
  /\ LET m == cpMsgs[k]
         handler == fleetMessageHandlers(PayloadType(m.payload))
     IN /\ cpReplies' =
             IF handler = "handleCoordinationProposal"
             THEN Append(cpReplies,
                         [sender |-> m.recipient, recipient |-> m.sender,
                          message_type |-> IF outcome = "accept" THEN "acceptance"
                                           ELSE "rejection",
                          proposalId |-> m.payload.proposalId])
             ELSE cpReplies
        /\ cpMsgs' = [cpMsgs EXCEPT ![k].cb = "done", ![k].status = "delivered"]
  /\ UNCHANGED cpActive
  /\ cpFrame

\* ------------------------------------------------------------------------
\* FleetCoordinatorAgent.handlePrivacyNegotiation.
MaxElevations == 2    \* privacy-negotiation messages handled

PrivacyLevels == {"minimal", "standard", "cooperative"}
\* payload.duration of the requests tried, in seconds
PvDurations == {1, 2}
PvPurposes == {"emergency", "city_mandate", "research"}

\* evaluatePrivacyElevation
evaluatePrivacyElevation(requestedLevel, purpose) ==
  purpose = "emergency" \/ purpose = "city_mandate"

pvFrame == UNCHANGED <<oldVars, cpVars, ptVars, ssVars>>

\* processMessage with a privacy-negotiation
HandlePrivacyNegotiation(requestedLevel, duration, purpose) ==
  /\ Len(pvReplies) < MaxElevations
  /\ IF evaluatePrivacyElevation(requestedLevel, purpose)
     THEN /\ privacyLevel' = requestedLevel
          /\ pvTimers' = Append(pvTimers, [due |-> now + duration * 1000,
                                           originalLevel |-> privacyLevel])
          /\ pvBefore' = IF pvBefore = "none" THEN privacyLevel ELSE pvBefore
          /\ pvReplies' = Append(pvReplies, "privacy-elevation-granted")
     ELSE /\ pvReplies' = Append(pvReplies, "privacy-elevation-denied")
          /\ UNCHANGED <<privacyLevel, pvTimers, pvBefore>>
  /\ pvFrame

\* the timer that fires next: the earliest due, the first created among equals
NextTimer(timers) ==
  CHOOSE k \in 1..Len(timers) :
    \A j \in 1..Len(timers) :
      timers[k].due < timers[j].due \/ (timers[k].due = timers[j].due /\ k <= j)

\* a setTimeout callback runs: privacyLevel = originalLevel
PrivacyTimerFires ==
  /\ pvTimers # <<>>
  /\ LET k == NextTimer(pvTimers) IN
     /\ pvTimers[k].due <= now
     /\ privacyLevel' = pvTimers[k].originalLevel
     /\ pvTimers' = SubSeq(pvTimers, 1, k - 1) \o SubSeq(pvTimers, k + 1, Len(pvTimers))
  /\ UNCHANGED <<pvBefore, pvReplies>>
  /\ pvFrame

\* ------------------------------------------------------------------------
\* start() / stop() of the intersection, fleet and district agents and the
\* intervals that start() registers.
MaxIntervalSets == 2  \* start() calls of one agent
MaxTimerRuns == 2     \* interval callbacks followed

PtAgents == {"intersection", "fleet", "district"}

\* the callbacks registered by start() and what each does besides reading
\* and updating fields: a store write, a message sent, or neither
PeriodicTasks(a) ==
  CASE a = "intersection" -> {<<"updateIntersectionState", "write">>}
    [] a = "fleet" -> {<<"updateFleetStatus", "write">>, <<"updatePriorityScore", "none">>}
    [] a = "district" -> {<<"monitorDistrictHealth", "none">>, <<"reportToMaster", "send">>}

ptFrame == UNCHANGED <<oldVars, cpVars, pvVars, ssVars>>

\* start(): super.start() sets isActive, then the setInterval calls
PtStart(a) ==
  /\ ptIntervals[a] < MaxIntervalSets
  /\ ptActive' = [ptActive EXCEPT ![a] = TRUE]
  /\ ptIntervals' = [ptIntervals EXCEPT ![a] = @ + 1]
  /\ UNCHANGED ptRuns
  /\ ptFrame

\* stop(): BaseAgent.stop, which none of the three overrides; the intervals
\* stay registered
PtStop(a) ==
  /\ ptActive[a]
  /\ ptActive' = [ptActive EXCEPT ![a] = FALSE]
  /\ UNCHANGED <<ptIntervals, ptRuns>>
  /\ ptFrame

\* an interval of agent a fires and its callback runs
IntervalFires(a, task) ==
  /\ ptIntervals[a] > 0
  /\ task \in PeriodicTasks(a)
  /\ Len(ptRuns) < MaxTimerRuns
  /\ ptRuns' = Append(ptRuns, <<a, task[1], task[2]>>)
  /\ UNCHANGED <<ptActive, ptIntervals>>
  /\ ptFrame

\* ------------------------------------------------------------------------
\* POST and DELETE /api/simulation/start, the auto-stop timer, and
\* POST /api/agents/start, followed request by request.  A handler runs
\* without interruption up to an await that waits for the store; awaits of
\* BaseAgent.start and stop (no I/O) do not let another request in.
MaxSimRequests == 2   \* POST /api/simulation/start requests
MaxSimStops == 2      \* DELETE requests and auto-stops that find a simulation running
MaxAgentsRequests == 2  \* POST /api/agents/start requests

SimRequests == 1..MaxSimRequests
AgentKinds == {"master", "fleet", "intersection", "district"}

\* the agents that agentSystem's fields of the given kinds refer to
AgentsOf(system, kinds) == IF system = 0 THEN {} ELSE {<<system, k>> : k \in kinds}

ssFrame == UNCHANGED <<oldVars, cpVars, pvVars, ptVars>>

\* POST is called: 400 when simulationRunning; else the agents are
\* constructed and put into agentSystem, and masterOrchestrator.start() is
\* called, which sets isActive and then waits for the store (initializeAgents)
SimulationPost(r) ==
  /\ ssPc[r] = "new"
  /\ IF ssRunning
     THEN /\ ssPc' = [ssPc EXCEPT ![r] = "rejected"]
          /\ UNCHANGED <<agentSystem, ssCreated, ssActive>>
     ELSE /\ ssPc' = [ssPc EXCEPT ![r] = "masterStarting"]
          /\ agentSystem' = r
          /\ ssCreated' = ssCreated \cup {r}
          /\ ssActive' = ssActive \cup {<<r, "master">>}
  /\ UNCHANGED <<ssRunning, ssTimers, ssStops, arOrchestrator, arActive, arReplies>>
  /\ ssFrame

\* masterOrchestrator.start() resolves: the loops start the fleet,
\* intersection and district agents that agentSystem holds now (for..of over
\* undefined throws when agentSystem was cleared meanwhile), then
\* simulationRunning = true and the system_metrics insert is awaited
SimulationMasterStarted(r) ==
  /\ ssPc[r] = "masterStarting"
  /\ IF agentSystem = 0
     THEN /\ ssRunning' = FALSE
          /\ ssPc' = [ssPc EXCEPT ![r] = "failed"]
          /\ UNCHANGED ssActive
     ELSE /\ ssActive' = ssActive \cup AgentsOf(agentSystem, AgentKinds \ {"master"})
          /\ ssRunning' = TRUE
          /\ ssPc' = [ssPc EXCEPT ![r] = "logging"]
  /\ UNCHANGED <<agentSystem, ssCreated, ssTimers, ssStops, arOrchestrator, arActive,
                 arReplies>>
  /\ ssFrame

\* masterOrchestrator.start() rejects: catch sets simulationRunning = false
\* and answers 500
SimulationStartThrows(r) ==
  /\ ssPc[r] = "masterStarting"
  /\ ssRunning' = FALSE
  /\ ssPc' = [ssPc EXCEPT ![r] = "failed"]
  /\ UNCHANGED <<agentSystem, ssCreated, ssActive, ssTimers, ssStops, arOrchestrator,
                 arActive, arReplies>>
  /\ ssFrame

\* the insert and applyScenario have settled: startSimulationMonitoring
\* registers the auto-stop timer, and the request answers success
SimulationMonitoringStarted(r) ==
  /\ ssPc[r] = "logging"
  /\ ssTimers' = ssTimers \cup {r}
  /\ ssPc' = [ssPc EXCEPT ![r] = "done"]
  /\ UNCHANGED <<ssRunning, agentSystem, ssCreated, ssActive, ssStops, arOrchestrator,
                 arActive, arReplies>>
  /\ ssFrame

\* DELETE while a simulation runs: stop() on the orchestrator and on every
\* fleet, intersection and district agent of agentSystem, then
\* agentSystem = {} and simulationRunning = false
SimulationDelete ==
  /\ ssRunning
  /\ ssStops < MaxSimStops
  /\ ssStops' = ssStops + 1
  /\ ssActive' = ssActive \ AgentsOf(agentSystem, AgentKinds)
  /\ agentSystem' = 0
  /\ ssRunning' = FALSE
  /\ UNCHANGED <<ssCreated, ssPc, ssTimers, arOrchestrator, arActive, arReplies>>
  /\ ssFrame

\* the setTimeout(duration) callback of request r: nothing when no simulation
\* is running, else simulationRunning = false, stop() on the fleet
\* coordinators of agentSystem, agentSystem = {}
SimulationAutoStop(r) ==
  /\ r \in ssTimers
  /\ ssTimers' = ssTimers \ {r}
  /\ IF ssRunning /\ ssStops < MaxSimStops
     THEN /\ ssStops' = ssStops + 1
          /\ ssRunning' = FALSE
          /\ ssActive' = ssActive \ AgentsOf(agentSystem, {"fleet"})
          /\ agentSystem' = 0
     ELSE /\ ~ssRunning
          /\ UNCHANGED <<ssStops, ssRunning, ssActive, agentSystem>>
  /\ UNCHANGED <<ssCreated, ssPc, arOrchestrator, arActive, arReplies>>
  /\ ssFrame

\* POST /api/agents/start: 409 when `orchestrator` is set; else the
\* orchestrator is constructed, assigned and started, and after it the
\* intersection, district and fleet agents; when the orchestrator's start()
\* rejects (ok = FALSE) the catch answers 500
AgentsPost(ok) ==
  /\ Len(arReplies) < MaxAgentsRequests
  /\ IF arOrchestrator
     THEN /\ arReplies' = Append(arReplies, 409)
          /\ UNCHANGED <<arOrchestrator, arActive>>
     ELSE /\ arOrchestrator' = TRUE
          /\ arActive' = IF ok THEN AgentKinds ELSE {"master"}
          /\ arReplies' = Append(arReplies, IF ok THEN 200 ELSE 500)
  /\ UNCHANGED <<ssRunning, agentSystem, ssCreated, ssActive, ssPc, ssTimers, ssStops>>
  /\ ssFrame

\* ------------------------------------------------------------------------
\* Specifications.
InitPrVars ==
  /\ prPayload = [vehicleId |-> "v1", company |-> "waymo", waitTime |-> 0, passengers |-> 0,
                  batteryLevel |-> 100, direction |-> "north"]
  /\ prPenalty = 0
  /\ prRequest = NoRequest
  /\ prWait = -1

InitDcVars ==
  /\ dcTracker = [c \in Companies |-> 0]
  /\ dcBase = dcTracker
  /\ dcN = [c \in Companies |-> 0]
  /\ dcRounds = 0

InitFnVars ==
  /\ fbParticipants = <<>>
  /\ fbRuns = <<>>
  /\ InitPrVars
  /\ InitDcVars

InitApiVars == systemMetrics = <<>> /\ stopReplies = <<>>

InitNgVars ==
  /\ negotiationRows = [id \in NgIds |-> NoRow]
  /\ ngImplemented = {}
  /\ ngHandled = 0

InitSmVars == smCalls = <<>> /\ smStore = {}

InitEcVars == ecCorridors = {} /\ ecBroadcasts = <<>> /\ ecHandled = 0

InitDaVars ==
  /\ daCapacity = 20
  /\ vehicleCount = 0
  /\ congestionLevel = <<0, 1>>
  /\ daSent = <<>>
  /\ daHandled = 0

InitCpVars ==
  /\ cpActive = [f \in CpFleets |-> FALSE]
  /\ cpMsgs = <<>>
  /\ cpReplies = <<>>

InitPvVars ==
  /\ privacyLevel = "standard"
  /\ pvTimers = <<>>
  /\ pvBefore = "none"
  /\ pvReplies = <<>>

InitPtVars ==
  /\ ptActive = [a \in PtAgents |-> FALSE]
  /\ ptIntervals = [a \in PtAgents |-> 0]
  /\ ptRuns = <<>>

InitSsVars ==
  /\ ssRunning = FALSE
  /\ agentSystem = 0
  /\ ssCreated = {}
  /\ ssActive = {}
  /\ ssPc = [r \in SimRequests |-> "new"]
  /\ ssTimers = {}
  /\ ssStops = 0
  /\ arOrchestrator = FALSE
  /\ arActive = {}
  /\ arReplies = <<>>

InitMoreVars == InitCpVars /\ InitPvVars /\ InitPtVars /\ InitSsVars

InitLaterVars == InitNgVars /\ InitSmVars /\ InitEcVars /\ InitDaVars /\ InitMoreVars

InitRestVars == InitApiVars /\ InitLaterVars

Init ==
  /\ now = 0 /\ InitMsgVars /\ InitGcVars /\ InitApVars /\ InitIxVars /\ InitEmVars
  /\ InitFnVars /\ InitRestVars

NextMsg ==
  \/ Tick
  \/ \E i \in Instances : Start(i)
  \/ \E i \in Instances : Stop(i)
  \/ AgentsStartRequest
  \/ SimulationStartRequest
  \/ \E r \in AgentIds, t \in TTLs : InsertMessage(r, t)
  \/ \E e \in Events : Deliver(e)
  \/ \E e \in Events : HandlerReturns(e)
  \/ \E e \in Events : HandlerThrows(e)

SpecMsg == Init /\ [][NextMsg]_vars

GcStep == BroadcastDone \/ LoopTest \/ QueryReturns \/ SleepDone

NextConsensus ==
  \/ \E P \in ParticipantSets, t \in Timeouts : GatherConsensus(P, t)
  \/ GcStep
  \/ \E s \in Senders, t \in {"acceptance", "rejection"} : Respond(s, t)

SpecConsensus == Init /\ [][NextConsensus]_vars

\* The event loop runs every continuation of the call, the timer fires and
\* the store answers each select.
SpecConsensusFair == SpecConsensus /\ WF_vars(GcStep)

\* the start and stop routes and the agents' own start() and stop()
NextLifecycle ==
  \/ \E i \in Instances : Start(i)
  \/ \E i \in Instances : Stop(i)
  \/ AgentsStartRequest
  \/ SimulationStartRequest
  \/ \E stored \in BOOLEAN : AgentsStopRequest(stored)

SpecLifecycle == Init /\ [][NextLifecycle]_vars

NextApproval ==
  \/ \E r \in 0..MaxResponses : \E n \in {r, r + 1} : \E a \in 0..r : ApRound(n, r, a)
  \/ ApDecide

SpecApproval == Init /\ [][NextApproval]_vars

NextIntersection ==
  \/ Tick
  \/ \E c \in CrossingRequests : DeliverCrossingRequest(Payload(c[1], c[2]), c[1])
  \/ \E h \in HandlerIds, d \in Decisions : DecisionReturns(h, d)
  \/ \E h \in HandlerIds : PermissionSent(h)
  \/ \E h \in HandlerIds : NegotiationLogged(h)
  \/ \E d \in Durations : DeliverEmergencyPreemption(d, "master-orchestrator")
  \/ \E t \in {"status-query"} \cup UnhandledTypes : DeliverOther(t, "master-orchestrator")

SpecIntersection == Init /\ [][NextIntersection]_vars

EmStep ==
  \/ \E plan \in RoutingPlans : RoutingReturns(plan)
  \/ \E m \in emInserts : InsertSettles(m, TRUE)
  \/ BroadcastCompletes
  \/ \E m \in emChannel : EmDeliver(m)

NextEmergency ==
  \/ \E districts \in SUBSET EmDistricts, fleets \in SUBSET EmFleets :
       InitializeAgents(districts, fleets)
  \/ \E corridor \in SUBSET EmIntersections : EmergencyAlert(corridor)
  \/ \E plan \in RoutingPlans : RoutingReturns(plan)
  \/ \E m \in emInserts, ok \in BOOLEAN : InsertSettles(m, ok)
  \/ BroadcastCompletes
  \/ \E m \in emChannel : EmDeliver(m)

SpecEmergency == Init /\ [][NextEmergency]_vars

\* the event loop runs every continuation, the store answers every insert
\* (here: successfully) and the channel hands over every stored message
SpecEmergencyFair == SpecEmergency /\ WF_vars(EmStep)

NextFallback ==
  \E waitTimes \in [{fbParticipants[k] : k \in 1..Len(fbParticipants)} -> RandomWaits] :
    ProcessIntersectionNegotiation(waitTimes)

InitFallback ==
  /\ now = 0 /\ InitMsgVars /\ InitGcVars /\ InitApVars /\ InitIxVars /\ InitEmVars
  /\ InitRestVars
  /\ fbParticipants \in FbParticipantLists
  /\ fbRuns = <<>>
  /\ InitPrVars
  /\ InitDcVars

SpecFallback == InitFallback /\ [][NextFallback]_vars

NextPriority ==
  \/ BuildRequest
  \/ \E wait \in PrWaits : RecomputePriority(wait)

InitPriority ==
  /\ now = 0 /\ InitMsgVars /\ InitGcVars /\ InitApVars /\ InitIxVars /\ InitEmVars
  /\ InitRestVars
  /\ fbParticipants = <<>>
  /\ fbRuns = <<>>
  /\ prPayload \in PrPayloads
  /\ prPenalty \in PrPenalties
  /\ prRequest = NoRequest
  /\ prWait = -1
  /\ InitDcVars

SpecPriority == InitPriority /\ [][NextPriority]_vars

NextFairness == \E adjustments \in AdjustmentChoices : CompleteRound(adjustments)

InitFairness ==
  /\ now = 0 /\ InitMsgVars /\ InitGcVars /\ InitApVars /\ InitIxVars /\ InitEmVars
  /\ InitRestVars
  /\ fbParticipants = <<>>
  /\ fbRuns = <<>>
  /\ InitPrVars
  /\ dcTracker \in [Companies -> DcPenalties]
  /\ dcBase = dcTracker
  /\ dcN = [c \in Companies |-> 0]
  /\ dcRounds = 0

SpecFairness == InitFairness /\ [][NextFairness]_vars

NextNegotiation ==
  \E id \in NgIds, proposal \in NgProposals, applied \in BOOLEAN :
    HandleNegotiationRequest(id, proposal, applied)

\* a negotiation row in any status the table allows, or none
InitNegotiation ==
  /\ now = 0 /\ InitMsgVars /\ InitGcVars /\ InitApVars /\ InitIxVars /\ InitEmVars
  /\ InitFnVars /\ InitApiVars /\ InitSmVars /\ InitEcVars /\ InitDaVars /\ InitMoreVars
  /\ negotiationRows \in [NgIds -> {NoRow} \cup {[NoRow EXCEPT !.status = st] : st \in NgStatuses}]
  /\ ngImplemented = {}
  /\ ngHandled = 0

SpecNegotiation == InitNegotiation /\ [][NextNegotiation]_vars

\* the channel invokes every callback it has an event for and a running
\* processMessage settles
MsgStep ==
  \/ \E e \in Events : Deliver(e)
  \/ \E e \in Events : HandlerReturns(e)
  \/ \E e \in Events : HandlerThrows(e)

SpecMsgFair == SpecMsg /\ WF_vars(MsgStep)

\* the event loop resumes every handler that is waiting for makeDecision, a
\* send or the coordination_events insert
IxStep ==
  \/ \E h \in HandlerIds, d \in Decisions : DecisionReturns(h, d)
  \/ \E h \in HandlerIds : PermissionSent(h)
  \/ \E h \in HandlerIds : NegotiationLogged(h)

SpecIntersectionFair == SpecIntersection /\ WF_vars(IxStep)

NextSend ==
  \/ \E caller \in SmCallers, priority \in SmPriorities, ttl \in SmTtls :
       SendMessage(caller, priority, ttl)
  \/ \E k \in 1..MaxSends, ok \in BOOLEAN : SendSettles(k, ok)

SpecSend == Init /\ [][NextSend]_vars

NextCorridor ==
  \/ Tick
  \/ \E protocol \in EcProtocols, routed \in BOOLEAN, stored \in BOOLEAN :
       EnhancedEmergencyAlert(protocol, routed, stored)

SpecCorridor == Init /\ [][NextCorridor]_vars

NextDistrict ==
  \/ HandleVehicleEntry
  \/ HandleVehicleExit
  \/ \E count \in DaCounts : MonitorDistrictHealth(count)

InitDistrict ==
  /\ now = 0 /\ InitMsgVars /\ InitGcVars /\ InitApVars /\ InitIxVars /\ InitEmVars
  /\ InitFnVars /\ InitApiVars /\ InitNgVars /\ InitSmVars /\ InitEcVars /\ InitMoreVars
  /\ daCapacity \in DaCapacities
  /\ vehicleCount = 0
  /\ congestionLevel = <<0, 1>>
  /\ daSent = <<>>
  /\ daHandled = 0

SpecDistrict == InitDistrict /\ [][NextDistrict]_vars

NextProposal ==
  \/ \E f \in CpFleets : CpStart(f)
  \/ \E P \in SUBSET CpFleets : GatherConsensusBroadcast(P)
  \/ \E f \in CpFleets : SendCoordinationProposal(f)
  \/ \E k \in 1..MaxProposals, o \in CpOutcomes : FleetProcessMessage(k, o)

SpecProposal == Init /\ [][NextProposal]_vars

NextPrivacy ==
  \/ Tick
  \/ \E l \in PrivacyLevels, d \in PvDurations, p \in PvPurposes :
       HandlePrivacyNegotiation(l, d, p)
  \/ PrivacyTimerFires

SpecPrivacy == Init /\ [][NextPrivacy]_vars

NextTimers ==
  \/ \E a \in PtAgents : PtStart(a)
  \/ \E a \in PtAgents : PtStop(a)
  \/ \E a \in PtAgents : \E task \in PeriodicTasks(a) : IntervalFires(a, task)

SpecTimers == Init /\ [][NextTimers]_vars

NextSimulation ==
  \/ \E r \in SimRequests : SimulationPost(r)
  \/ \E r \in SimRequests : SimulationMasterStarted(r)
  \/ \E r \in SimRequests : SimulationStartThrows(r)
  \/ \E r \in SimRequests : SimulationMonitoringStarted(r)
  \/ SimulationDelete
  \/ \E r \in SimRequests : SimulationAutoStop(r)
  \/ \E ok \in BOOLEAN : AgentsPost(ok)

SpecSimulation == Init /\ [][NextSimulation]_vars

\* ------------------------------------------------------------------------
\* C1: a message whose age (now - timestamp) exceeds ttl seconds when
\* handleIncomingMessage runs for it is marked expired and that invocation
\* does not call processMessage.
C1_ExpiredNeverProcessed ==
  [][\A e \in Events :
       (Deliver(e) /\ isActive[e[2]]
          /\ now - msgs[e[1]].timestamp > msgs[e[1]].ttl * 1000)
       => /\ msgs'[e[1]].status = "expired"
          /\ processCount'[e[1]] = processCount[e[1]]
          /\ cb'[e] # "running"]_vars

C1_Witness ==
  \E e \in Events : cb[e] = "expired" /\ msgs[e[1]].status = "expired"
                    /\ processCount[e[1]] = 0

\* C2: processMessage is invoked at most once per message id.
C2_AtMostOnce == \A m \in MsgIds : processCount[m] <= 1

\* C3: a throwing processMessage does not reject the inbound callback, and
\* the failed message is still marked delivered.
C3_HandlerFailureContained ==
  \A e \in threw : cb[e] # "rejected" /\ msgs[e[1]].status = "delivered"

\* ------------------------------------------------------------------------
\* C4: a call that returns with fewer than ceil(0.7 * n) responders (the
\* timeout ran out below quorum) reports approved = false.
C4_TimeoutNotApproved ==
  (gcPc = "done"
     /\ 10 * Cardinality(DOMAIN responses) < 7 * Cardinality(participants))
  => ~approved

\* C5 as claimed: at quorum, approved iff strictly more than half of the
\* responses received are acceptances.
C5_StrictMajority ==
  apPc = "done" => (apApproved <=> 2 * apApprovals > apResponses)

\* C5 as amended: at quorum, approved iff the acceptances number at least
\* ceil(0.51 * responses), i.e. 100 * acceptances >= 51 * responses.
C5_FiftyOnePercent ==
  apPc = "done" => (apApproved <=> 100 * apApprovals >= 51 * apResponses)

C5_Witness ==
  apPc = "done" /\ apResponses = 7 /\ apApprovals = 4 /\ apApproved

\* C6: the call always returns; while it is still polling the responders
\* number fewer than ceil(0.7 * |participants|), it returns only at quorum or
\* once timeoutMs has elapsed, and it issues a select only within timeoutMs.
C6_Polling ==
  /\ (gcPc \in {"sleep", "loop"} /\ polls > 0)
       => 10 * Cardinality(DOMAIN responses) < 7 * Cardinality(participants)
  /\ gcPc = "done"
       => \/ 10 * Cardinality(DOMAIN responses) >= 7 * Cardinality(participants)
          \/ now - startTime >= timeoutMs
  /\ polls > 0 => (polls - 1) * 100 < timeoutMs

C6_AlwaysReturns == (gcPc # "idle" ~> gcPc = "done") /\ []C6_Polling

C6_Witness ==
  gcPc = "done" /\ polls >= 2 /\ responses = EmptyMap /\ now - startTime >= timeoutMs

\* ------------------------------------------------------------------------
\* C7: an intersection agent never has more than one auction in flight
\* (currentNegotiations holds at most one id and at most one handler is inside
\* runAuctionNegotiation), whatever the interleaving of the handlers; a
\* crossing request handled while an auction is in flight is appended to its
\* queue, starts no auction and goes straight to its acknowledgment.
InAuction(h) == handlers[h].pc \in {"decide", "exec", "log"}

C7_AtMostOne ==
  /\ Cardinality(currentNegotiations) <= 1
  /\ Cardinality({h \in HandlerIds : InAuction(h)}) <= 1

C7_OneAuctionInFlight ==
  /\ []C7_AtMostOne
  /\ [][\A c \in CrossingRequests :
          (DeliverCrossingRequest(Payload(c[1], c[2]), c[1])
             /\ currentNegotiations # {})
          => /\ currentNegotiations' = currentNegotiations
             /\ handlers'[nDelivered + 1].pc = "done"
             /\ \A d \in Directions :
                  IF d = c[2]
                  THEN /\ Len(queuesByDirection'[d]) = Len(queuesByDirection[d]) + 1
                       /\ SubSeq(queuesByDirection'[d], 1, Len(queuesByDirection[d]))
                            = queuesByDirection[d]
                       /\ queuesByDirection'[d][Len(queuesByDirection'[d])].vehicleId = c[1]
                  ELSE queuesByDirection'[d] = queuesByDirection[d]]_vars

\* an auction is waiting for its decision and a request has been enqueued
\* since it collected its requests
C7_Witness ==
  \E h \in HandlerIds :
    /\ handlers[h].pc = "decide"
    /\ currentNegotiations = {handlers[h].negotiationId}
    /\ Len(AllRequests(queuesByDirection)) > Len(handlers[h].allRequests)

\* ------------------------------------------------------------------------
\* C8: when makeDecision rejects or yields a value without a crossing order,
\* the auction still completes: no exception leaves runAuctionNegotiation,
\* and when the crossing order has been executed every request the auction
\* collected has been granted, in descending priority order.
PriorityOf(requests, v) ==
  LET k == CHOOSE k \in 1..Len(requests) : requests[k].vehicleId = v
  IN requests[k].priority

C8_Slotted(rec) ==
  /\ \A k \in 1..Len(rec.allRequests) :
       \E g \in 1..Len(rec.granted) : rec.granted[g] = rec.allRequests[k].vehicleId
  /\ \A g1, g2 \in 1..Len(rec.granted) :
       g1 < g2 => PriorityOf(rec.allRequests, rec.granted[g1])
                    >= PriorityOf(rec.allRequests, rec.granted[g2])

C8_FallbackOnAdapterFailure ==
  \A h \in HandlerIds :
    handlers[h].decision \in FailureKinds
      => /\ handlers[h].pc # "threw"
         /\ handlers[h].pc = "log" => C8_Slotted(handlers[h])

\* ------------------------------------------------------------------------
\* C9: from the handling of an emergency-preemption until its duration has
\* elapsed, no step of the agent starts an auction and none sends a
\* crossing-permission.
C9_Preempted ==
  /\ preemptedAt >= 0
  /\ now < preemptedAt + intersectionState.emergency_duration * 1000

C9_NoAuctionWhilePreempted ==
  [][C9_Preempted
       => /\ currentNegotiations' \subseteq currentNegotiations
          /\ \A v \in Vehicles :
               CopiesIn(<<v, "info", "crossing-permission", 10>>, sent')
                 = CopiesIn(<<v, "info", "crossing-permission", 10>>, sent)]_vars

\* ------------------------------------------------------------------------
\* C10: handling an emergency-preemption leaves the eight queues empty and
\* sends emergency-yield messages at priority 1000, and nothing else, to the
\* queued vehicles.  As claimed: exactly one to every vehicle that was queued.
\* As the code does it: one for every queued request, so a vehicle that was
\* queued k times is sent k of them.
EntriesOf(v) ==
  Cardinality({k \in 1..Len(AllRequests(queuesByDirection)) :
                 AllRequests(queuesByDirection)[k].vehicleId = v})

YieldsTo(v, bag) == CopiesIn(<<v, "emergency", "emergency-yield", 1000>>, bag)

C10_OnlyYields ==
  /\ \A d \in Directions : queuesByDirection'[d] = <<>>
  /\ \A x \in BagToSet(sent') :
       CopiesIn(x, sent') # CopiesIn(x, sent)
         => \E v \in Vehicles : x = <<v, "emergency", "emergency-yield", 1000>>

C11_CorridorPreempted ==
  (emPc = "routing") ~> (\A i \in emCorridor : i \in emPreempted)

\* ------------------------------------------------------------------------
\* C12: whenever the orchestrator has finished handling its emergency
\* alerts, it has sent one emergency-corridor message of kind emergency at
\* priority 1000 per alert to every agent of districtAgents and fleetAgents.
C12_OnePerAgentPerAlert ==
  emPc = "idle"
    => \A a \in districtAgents \cup fleetAgents :
         CopiesIn(<<"master-orchestrator", a, "emergency", "emergency-corridor", 1000>>,
                  emAttempts) = emAlerts

\* ------------------------------------------------------------------------
\* C13: every rule-based resolution of the same requests yields the same
\* crossing order: descending priority, ties broken by earlier arrival (so
\* veh-90s, veh-40s, veh-10s; and veh-B, priority 5, before veh-A, clamped to 0).
FbPriority(v) == calculatePriority(FbRequest(v), FbTracker)

FbBefore(v, w) ==
  \/ FbPriority(v) > FbPriority(w)
  \/ FbPriority(v) = FbPriority(w) /\ FbRequest(v).arrivalTime <= FbRequest(w).arrivalTime

C13_FallbackDeterministic ==
  \A r \in 1..Len(fbRuns) :
    /\ fbRuns[r] = fbRuns[1]
    /\ \A i, j \in 1..Len(fbRuns[r]) : i < j => FbBefore(fbRuns[r][i], fbRuns[r][j])

\* ------------------------------------------------------------------------
\* C14: the priority recomputed in an auction round is
\* max(0, wait_seconds / 60 * 10 + passengers * 5 + (50 if the reported
\* battery level is below 20) - penalty of the company), in 1/PriorityScale
\* points, for every reported passenger count, battery level and penalty.
C14_RecomputedPriority ==
  prWait >= 0
    => prRequest.priority =
         Max(0, (prWait * 10 * PriorityScale) \div 60
                + prPayload.passengers * 5 * PriorityScale
                + (IF prPayload.batteryLevel < 20 THEN 50 * PriorityScale ELSE 0)
                - prPenalty)

\* ------------------------------------------------------------------------
\* C15: a completed round leaves every company's penalty at (previous penalty
\* + this round's adjustment for it, 0 if none) * 0.95, companies without an
\* adjustment included; so n rounds after its last adjustment a penalty p is
\* p * 0.95^n = p / 20^n * 19^n, and its magnitude has strictly decreased
\* unless it is 0.
Abs(x) == IF x < 0 THEN -x ELSE x

RECURSIVE Pow(_, _)
Pow(b, n) == IF n = 0 THEN 1 ELSE b * Pow(b, n - 1)

C15_DecayedEveryRound ==
  /\ [][\A adjustments \in AdjustmentChoices :
          CompleteRound(adjustments)
            => \A c \in Companies :
                 20 * dcTracker'[c] =
                   19 * (dcTracker[c]
                         + (IF c \in DOMAIN adjustments THEN adjustments[c] ELSE 0))]_vars
  /\ [](\A c \in Companies :
          /\ dcBase[c] % Pow(20, dcN[c]) = 0
          /\ dcTracker[c] = (dcBase[c] \div Pow(20, dcN[c])) * Pow(19, dcN[c])
          /\ (dcN[c] > 0 /\ dcBase[c] # 0) => Abs(dcTracker[c]) < Abs(dcBase[c]))

\* two rounds in which waymo was adjusted and zoox, not involved, decayed twice
C15_Witness ==
  /\ dcRounds = 2
  /\ dcN["zoox"] = 2 /\ dcTracker["zoox"] # 0
  /\ dcN["waymo"] = 0 /\ dcTracker["waymo"] # dcBase["zoox"]

\* ------------------------------------------------------------------------
\* C16: when an auction's crossing order has been executed (no emergency
\* preemption having been handled since the auction began), a request the
\* auction collected is absent from its queue exactly if its vehicle is in
\* crossingOrder, the collected requests of the other vehicles are still in
\* their queues in the same relative order, and every vehicle of crossingOrder
\* that was queued has been sent exactly one crossing-permission.
InOrder(rec, v) == \E k \in 1..Len(rec.crossingOrder) : rec.crossingOrder[k] = v

Collected(rec, request) == \E k \in 1..Len(rec.allRequests) : rec.allRequests[k] = request

C16_Kept(rec, d) ==
  SelectSeq(rec.allRequests, LAMBDA r : r.direction = d /\ ~InOrder(rec, r.vehicleId))

C16_Left(rec, d) == SelectSeq(queuesByDirection[d], LAMBDA r : Collected(rec, r))

C16_OrderExecuted ==
  \A h \in HandlerIds :
    (handlers[h].pc = "log" /\ preemptedAt < handlers[h].negotiationId)
      => /\ \A d \in Directions : C16_Left(handlers[h], d) = C16_Kept(handlers[h], d)
         /\ \A v \in Vehicles :
              Cardinality({g \in 1..Len(handlers[h].granted) : handlers[h].granted[g] = v})
                = IF InOrder(handlers[h], v)
                     /\ \E k \in 1..Len(handlers[h].allRequests) :
                          handlers[h].allRequests[k].vehicleId = v
                  THEN 1 ELSE 0

\* ------------------------------------------------------------------------
\* C17: the status of a message changes at most once: once it is delivered
\* or expired no step changes it again (never delivered to expired, never
\* expired to delivered, never back to pending).
C17_StatusChangesOnce ==
  [][\A m \in MsgIds :
       msgs[m].status \in {"delivered", "expired"}
         => msgs'[m].status = msgs[m].status]_vars

\* ------------------------------------------------------------------------
\* C18: while an agent is stopped no arriving message is handed to
\* processMessage: a callback that runs while isActive is false ends without
\* calling processMessage and without writing a status.  stop() cancels
\* nothing: a handler that was running when stop() was called keeps running,
\* can always return, and when it returns its message is marked delivered.
C18_HandedOver(e) == cb[e] # "running" /\ cb'[e] = "running"

C18_NoNewMessage ==
  /\ \A e \in Events : C18_HandedOver(e) => isActive[e[2]]
  /\ \A m \in MsgIds :
       processCount'[m] # processCount[m]
         => \E e \in Events : e[1] = m /\ C18_HandedOver(e) /\ isActive[e[2]]
  /\ \A e \in Events :
       (cb[e] = "inflight" /\ ~isActive[e[2]] /\ cb'[e] # "inflight")
         => cb'[e] = "skipped" /\ msgs' = msgs /\ processCount' = processCount

C18_Drain ==
  \A e \in Events :
    cb[e] = "running"
      => /\ cb'[e] \in {"running", "delivered", "rejected"}
         /\ cb'[e] = "delivered" => msgs'[e[1]].status = "delivered"

C18_CanReturn ==
  \A e \in Events : cb[e] = "running" => ENABLED HandlerReturns(e)

C18_GracefulStop ==
  [][C18_NoNewMessage /\ C18_Drain]_vars /\ []C18_CanReturn

\* A stopped agent with one handler still running from before the stop and a
\* later arrival that was dropped by the callback.
C18_Witness ==
  \E e1 \in Events, e2 \in Events :
    /\ e1[2] = e2[2] /\ e1 # e2
    /\ ~isActive[e1[2]]
    /\ cb[e1] = "running"
    /\ cb[e2] = "skipped"

\* ------------------------------------------------------------------------
\* C19: a broadcast attempts exactly one send per recipient; a send whose
\* insert fails is reported on its own (one console.error for that
\* recipient), rejects nothing and leaves the sends to the other recipients
\* pending until they settle themselves; the broadcast completes once every
\* send has settled, failed or not, and it always does complete.
C19_Sends(attempts, sender, r) ==
  CopiesIn(<<sender, r, "emergency", "emergency-corridor", 1000>>, attempts)

C19_OnePerRecipient ==
  (emPc = "routing" /\ emPc' = "broadcast")
    => /\ \A r \in districtAgents \cup fleetAgents :
            /\ C19_Sends(emAttempts', "master-orchestrator", r)
                 = C19_Sends(emAttempts, "master-orchestrator", r) + 1
            /\ \E m \in emInserts' \ emInserts : m.recipient = r
       /\ \A r \in (EmDistricts \cup EmFleets) \ (districtAgents \cup fleetAgents) :
            C19_Sends(emAttempts', "master-orchestrator", r) = 0

C19_SettlesAlone ==
  (emInserts' # emInserts /\ emInserts' \subseteq emInserts)
    => \E m \in emInserts :
         /\ emInserts' = emInserts \ {m}
         /\ emPc' = emPc /\ emThrew' = emThrew /\ emAttempts' = emAttempts
         /\ \/ emChannel' = emChannel \cup {m} /\ emErrors' = emErrors
            \/ /\ emChannel' = emChannel
               /\ emErrors' = emErrors (+) SetToBag({m.recipient})

C19_CompletesWhenSettled ==
  (emPc = "broadcast" /\ emPc' # "broadcast")
    => /\ emPc' = "idle" /\ emThrew' = emThrew
       /\ \A m \in emInserts : m.sender # "master-orchestrator"

C19_BroadcastContainsFailures ==
  /\ [][C19_OnePerRecipient /\ C19_SettlesAlone /\ C19_CompletesWhenSettled]_vars
  /\ (emPc = "broadcast") ~> (emPc = "idle")

\* A completed broadcast in which the send to one recipient failed and the
\* message to another recipient is stored.
C19_Witness ==
  /\ emPc = "idle" /\ emAlerts > 0 /\ emThrew = {}
  /\ \E r1 \in districtAgents \cup fleetAgents, m \in emChannel :
       /\ CopiesIn(r1, emErrors) = 1
       /\ m.sender = "master-orchestrator" /\ m.recipient # r1
       /\ C19_Sends(emAttempts, "master-orchestrator", r1) = 1
       /\ C19_Sends(emAttempts, "master-orchestrator", m.recipient) = 1

\* ------------------------------------------------------------------------
\* C20: when POST /api/agents/stop has answered with success, every agent
\* that POST /api/agents/start started is inactive and the start route's
\* `orchestrator` is unset, so that the status GET reports 'stopped'
\* and the next POST /api/agents/start starts the agents instead of
\* answering 409.
C20_StopAnswered ==
  Len(stopReplies') = Len(stopReplies) + 1 /\ stopReplies'[Len(stopReplies')] = 200

C20_StopStopsAgents ==
  [][C20_StopAnswered
       => /\ orchestrator => \A i \in ApiAgents : ~isActive'[i]
          /\ ~orchestrator']_vars

\* ------------------------------------------------------------------------
\* C21: a negotiation's status only moves forward, and a negotiation that is
\* completed, failed or timeout keeps its status and its final agreement
\* whatever negotiation-request is handled afterwards.
NgRank(status) ==
  CASE status = "absent" -> 0
    [] status = "initiated" -> 1
    [] status = "proposing" -> 2
    [] status = "counter_proposing" -> 3
    [] status = "voting" -> 4
    [] status = "finalizing" -> 5
    [] status \in NgTerminal -> 6

C21_NoResurrection ==
  [][\A id \in NgIds :
       /\ NgRank(negotiationRows'[id].status) >= NgRank(negotiationRows[id].status)
       /\ negotiationRows[id].status \in NgTerminal
            => /\ negotiationRows'[id].status = negotiationRows[id].status
               /\ negotiationRows'[id].final_agreement = negotiationRows[id].final_agreement]_vars

\* ------------------------------------------------------------------------
\* C22: when a poll has read the response rows, the vote recorded for every
\* sender is that of the sender's most recent row, in whatever order the
\* store returned the rows.
C22_LastRowOf(sender) ==
  CHOOSE k \in 1..Len(rows) :
    /\ rows[k].sender = sender
    /\ \A j \in (k + 1)..Len(rows) : rows[j].sender # sender

C22_LastResponseWins ==
  [][(gcPc = "query" /\ gcPc' # "query" /\ responses' # responses)
       => \A k \in 1..Len(rows) :
            responses'[rows[k].sender]
              = (rows[C22_LastRowOf(rows[k].sender)].message_type = "acceptance")]_vars

\* ------------------------------------------------------------------------
\* C23: a pending message whose recipient is running is eventually handed
\* to processMessage (or stops being pending, or outlives its ttl), also when
\* it was inserted before start() or while the agent was stopped.
C23_Running(m) ==
  \E i \in Instances : isActive[i] /\ ConfigId(i) = msgs[m].recipient

C23_PendingHandedOver ==
  \A m \in MsgIds :
    (msgs[m].status = "pending" /\ C23_Running(m))
      ~> \/ processCount[m] > 0
         \/ msgs[m].status # "pending"
         \/ IsExpired(msgs[m], now)

\* ------------------------------------------------------------------------
\* C24: whenever at least two directional queues are non-empty and no auction
\* is in flight, an auction eventually starts (or the queues stop being
\* non-empty), whether or not another crossing request arrives.
C24_AuctionEventuallyStarts ==
  shouldNegotiate(queuesByDirection, currentNegotiations)
    ~> (currentNegotiations # {} \/ ~shouldNegotiate(queuesByDirection, currentNegotiations))

\* ------------------------------------------------------------------------
\* C25: every sendMessage call makes one insert attempt for one new message
\* (fresh id, sender = the caller's id, priority 5 and ttl 60 when omitted);
\* when the insert is rejected no message is stored, nothing is retried, and
\* the caller is told: what it gets back differs from what a successful send
\* gives it.
C25_OneMessage(k) ==
  LET c == smCalls[k] IN
  /\ c.attempts = 1
  /\ \A j \in 1..Len(smCalls) : j # k => smCalls[j].message.msg_id # c.message.msg_id
  /\ c.message.sender = c.caller
  /\ c.message.priority = (IF c.priority = Omitted THEN 5 ELSE c.priority)
  /\ c.message.ttl = (IF c.ttl = Omitted THEN 60 ELSE c.ttl)

C25_FailureReported(k) ==
  LET c == smCalls[k] IN
  (c.state = "settled" /\ c.failed)
    => /\ c.message \notin smStore
       /\ c.returned # "undefined"

C25_SendOnceAndReport ==
  \A k \in 1..Len(smCalls) : C25_OneMessage(k) /\ C25_FailureReported(k)

\* ------------------------------------------------------------------------
\* C26: marking a message delivered (or expired) a second time leaves the
\* table as the first marking left it, and marking a message that already has
\* the target status changes nothing.
C26_MarkTwice ==
  \A m \in MsgIds, st \in {"delivered", "expired"} :
    msgs[m].status # "none"
      => LET once == updateMessageStatus(msgs, m, st)
         IN /\ updateMessageStatus(once, m, st) = once
            /\ msgs[m].status = st => once = msgs

C26_RepeatedMarkIsNoOp ==
  \A e \in Events :
    /\ (cb[e] = "running" /\ cb'[e] = "delivered" /\ msgs[e[1]].status = "delivered")
         => msgs' = msgs
    /\ (cb[e] = "inflight" /\ cb'[e] = "expired" /\ msgs[e[1]].status = "expired")
         => msgs' = msgs

C26_MarkingIdempotent == []C26_MarkTwice /\ [][C26_RepeatedMarkIsNoOp]_vars

\* the same message marked delivered by two callbacks
C26_Witness ==
  \E e1 \in Events, e2 \in Events :
    /\ e1 # e2 /\ e1[1] = e2[1]
    /\ cb[e1] = "delivered" /\ cb[e2] = "delivered"
    /\ msgs[e1[1]].status = "delivered"

EcRank(status) ==
  CASE status = "planning" -> 0
    [] status = "activating" -> 1
    [] status = "active" -> 2
    [] status = "clearing" -> 3
    [] status \in {"completed", "cancelled"} -> 4

C28_ActiveAtOnce ==
  \A c \in ecCorridors : c.status \in {"active", "clearing", "completed"}

C28_Forward ==
  \A c \in ecCorridors : \A c2 \in ecCorridors' :
    c2.corridor_id = c.corridor_id
      => /\ EcRank(c2.status) >= EcRank(c.status)
         /\ c.status = "completed" => c2.status = "completed"

C28_CorridorLifecycle ==
  /\ []C28_ActiveAtOnce
  /\ [][C28_Forward]_vars
  /\ \A id \in 0..MaxNow :
       (\E c \in ecCorridors :
          c.corridor_id = id /\ now - c.created_at > c.estimated_duration_seconds * 1000)
         ~> (\E c \in ecCorridors :
               c.corridor_id = id /\ c.status \in {"clearing", "completed"})

\* ------------------------------------------------------------------------
\* C29: handling a vehicle-entry sends one congestion-alert to the master
\* orchestrator exactly if the occupancy ratio after the entry, vehicle count
\* over capacity capped at 1, is above 0.9, and nothing otherwise; handling a
\* vehicle-exit sends nothing.
C29_Ratio(count) == <<Min(count, daCapacity), daCapacity>>

C29_Above90(count) == 10 * Min(count, daCapacity) > 9 * daCapacity

C29_EntryStep == daHandled' = daHandled + 1 /\ vehicleCount' > vehicleCount

C29_ExitStep == daHandled' = daHandled + 1 /\ vehicleCount' <= vehicleCount

C29_AlertAbove90 ==
  [][/\ C29_EntryStep =>
          IF C29_Above90(vehicleCount')
          THEN /\ Len(daSent') = Len(daSent) + 1
               /\ SubSeq(daSent', 1, Len(daSent)) = daSent
               /\ LET m == daSent'[Len(daSent')]
                  IN /\ m.recipient = "master-orchestrator"
                     /\ m.type = "congestion-alert"
                     /\ m.vehicleCount = vehicleCount'
                     /\ m.level = C29_Ratio(vehicleCount')
          ELSE daSent' = daSent
     /\ C29_ExitStep => daSent' = daSent]_vars

\* three messages handled in a district of capacity 20, the only alert being
\* the one for the entry that brought the count to 19
C29_Witness ==
  /\ daCapacity = 20 /\ daHandled = 3
  /\ Len(daSent) = 1 /\ daSent[1].vehicleCount = 19

\* ------------------------------------------------------------------------
\* C30: only an agent whose id is the message's recipient hands the message
\* to processMessage or writes its status: every callback that skips, expires,
\* runs or marks a message belongs to an instance with that id, and every
\* change of a stored message's status is made by such a callback.
C30_Touched(e) == cb'[e] # cb[e] /\ cb'[e] # "inflight"

C30_Marked(m) == msgs[m].status # "none" /\ msgs'[m].status # msgs[m].status

C30_OnlyRecipient ==
  [][/\ \A e \in Events :
          C30_Touched(e) => ConfigId(e[2]) = msgs[e[1]].recipient
     /\ \A m \in MsgIds :
          (processCount'[m] # processCount[m] \/ C30_Marked(m)) =>
            \E e \in Events :
              /\ e[1] = m /\ C30_Touched(e)
              /\ ConfigId(e[2]) = msgs[m].recipient]_vars

\* a message for the fleet coordinator was handled and marked by it while an
\* active, subscribed orchestrator instance never saw it
C30_Witness ==
  \E m \in MsgIds :
    /\ msgs[m].recipient = "fleet-waymo" /\ msgs[m].status = "delivered"
    /\ cb[<<m, "sim/fleet-waymo", 1>>] = "delivered"
    /\ \E i \in Instances :
         /\ ConfigId(i) = "master-orchestrator"
         /\ isActive[i] /\ subs[i] >= 1
         /\ \A k \in 1..MaxStarts : cb[<<m, i, k>>] = "none"

\* ------------------------------------------------------------------------
\* C31: the vote map of gatherConsensus holds votes of participants only: a
\* response row carrying the proposal id whose sender is not in the
\* participant list is counted neither for quorum nor for approval.
C31_OnlyParticipantsVote ==
  gcPc # "idle" => DOMAIN responses \subseteq participants

\* ------------------------------------------------------------------------
\* C32: a running fleet coordinator that has handled a proposal broadcast by
\* gatherConsensus has sent the initiator exactly one acceptance or rejection
\* carrying the proposal's proposalId.
C32_RepliesTo(k) ==
  {j \in 1..Len(cpReplies) :
     /\ cpReplies[j].sender = cpMsgs[k].recipient
     /\ cpReplies[j].recipient = cpMsgs[k].sender
     /\ cpReplies[j].proposalId = cpMsgs[k].payload.proposalId}

C32_ProposalAnswered ==
  \A k \in 1..Len(cpMsgs) :
    (cpMsgs[k].payload = GcProposalPayload(cpMsgs[k].payload.proposalId)
       /\ cpMsgs[k].status = "delivered")
      => Cardinality(C32_RepliesTo(k)) = 1

\* ------------------------------------------------------------------------
\* C33: currentNegotiations holds exactly the id of the auction that is
\* executing, so it is empty whenever none is, also after an auction ended by
\* an exception (from makeDecision, from executing the order or updating the
\* fairness scores); a crossing request that is queued after a failed auction
\* starts a new auction when two directions are waiting.
C33_Executing == {handlers[h].negotiationId : h \in {x \in HandlerIds : InAuction(x)}}

C33_MarkerRemoved ==
  /\ [](currentNegotiations = C33_Executing)
  /\ [][\A c \in CrossingRequests :
          (/\ DeliverCrossingRequest(Payload(c[1], c[2]), c[1])
           /\ c[2] \in Directions
           /\ \E h \in HandlerIds : handlers[h].pc = "threw"
           /\ \A h \in HandlerIds : ~InAuction(h)
           /\ Cardinality({d \in Directions : queuesByDirection'[d] # <<>>}) >= 2)
          => /\ handlers'[nDelivered'].pc = "decide"
             /\ currentNegotiations' = {handlers'[nDelivered'].negotiationId}]_vars

\* an auction failed and the next crossing request started another one
C33_Witness ==
  \E h1 \in HandlerIds, h2 \in HandlerIds :
    /\ h1 < h2
    /\ handlers[h1].pc = "threw"
    /\ handlers[h2].pc = "decide"
    /\ currentNegotiations = {handlers[h2].negotiationId}

\* ------------------------------------------------------------------------
\* C34: whatever the interleaving of an auction with an emergency
\* preemption, a queued crossing request is answered by at most one of a
\* crossing-permission and an emergency-yield: every such message sent in a
\* step is paid for by a request of that vehicle leaving the queues in the
\* same step, and a request that has left the queues never returns.
C34_Refs(queues, v) ==
  UNION {{queues[d][k].ref : k \in {j \in 1..Len(queues[d]) : queues[d][j].vehicleId = v}} :
           d \in Directions}

C34_Answers(v, bag) == CopiesIn(Permission(v), bag) + CopiesIn(Yield(v), bag)

C34_PermissionOrYield ==
  [][\A v \in Vehicles :
       /\ sent' # sent =>
            C34_Answers(v, sent') - C34_Answers(v, sent)
              <= Cardinality(C34_Refs(queuesByDirection, v)
                               \ C34_Refs(queuesByDirection', v))
       /\ queuesByDirection' # queuesByDirection =>
            C34_Refs(queuesByDirection', v) \ C34_Refs(queuesByDirection, v)
              \subseteq {nDelivered'} \ {nDelivered}]_vars

\* an auction granted v1 and, while it awaited the permission's send, a
\* preemption made v2 yield; the auction then went on and ended
C34_Witness ==
  /\ preemptedAt >= 0
  /\ CopiesIn(Permission("v1"), sent) = 1 /\ CopiesIn(Yield("v1"), sent) = 0
  /\ CopiesIn(Yield("v2"), sent) = 1 /\ CopiesIn(Permission("v2"), sent) = 0
  /\ \A h \in HandlerIds : ~InAuction(h)
  /\ currentNegotiations = {}
  /\ nDelivered = 3

\* ------------------------------------------------------------------------
\* C35: a vehicle id is in the directional queues at most once, whatever
\* crossing requests were handled, repeated ones included.
C35_QueuedOnce == \A v \in Vehicles : EntriesOf(v) <= 1

\* ------------------------------------------------------------------------
\* C36: once every granted elevation has timed out, the fleet's privacy level
\* is the one it had before the first elevation, also when elevations
\* overlapped.
C36_LevelRestored ==
  (pvBefore # "none" /\ pvTimers = <<>>) => privacyLevel = pvBefore

\* ------------------------------------------------------------------------
\* C37: between stop() and the next start() an agent sends no message and
\* writes nothing to the store: every periodic callback that sends or writes
\* runs while its agent is active.
C37_QuietAfterStop ==
  [][(Len(ptRuns') > Len(ptRuns) /\ ptRuns'[Len(ptRuns')][3] # "none")
       => ptActive[ptRuns'[Len(ptRuns')][1]]]_vars

\* ------------------------------------------------------------------------
\* C38: a POST /api/simulation/start that arrives while a simulation is
\* running or another request is still starting one is rejected and
\* constructs and starts nothing.
C38_Starting(r) == ssPc[r] = "masterStarting"

C38_OneStartAtATime ==
  [][\A r \in SimRequests :
       (/\ ssPc[r] = "new" /\ ssPc'[r] # "new"
        /\ (ssRunning \/ \E o \in SimRequests \ {r} : C38_Starting(o)))
       => /\ ssPc'[r] = "rejected"
          /\ ssCreated' = ssCreated
          /\ ssActive' = ssActive]_vars

\* ------------------------------------------------------------------------
\* C39: when a running simulation is stopped, by DELETE or by the auto-stop
\* timer, every agent that agentSystem holds has been stopped by the time
\* agentSystem is cleared.
C39_AllStoppedBeforeClear ==
  [][(agentSystem # 0 /\ agentSystem' = 0)
       => \A k \in AgentKinds : <<agentSystem, k>> \notin ssActive']_vars

\* ------------------------------------------------------------------------
\* C40: a start that fails partway leaves the system as if it had not been
\* started: after a failed POST /api/simulation/start none of the agents it
\* constructed is active and simulationRunning is false; after a failed
\* POST /api/agents/start no agent is active and `orchestrator` is unset, so
\* that the next start request is not answered 409.
C40_SimulationFails(r) == ssPc[r] = "masterStarting" /\ ssPc'[r] = "failed"

C40_AgentsFail ==
  Len(arReplies') = Len(arReplies) + 1 /\ arReplies'[Len(arReplies')] = 500

C40_FailedStartUndone ==
  [][/\ \A r \in SimRequests :
          C40_SimulationFails(r)
            => /\ ~ssRunning'
               /\ \A k \in AgentKinds : <<r, k>> \notin ssActive'
     /\ C40_AgentsFail => (~arOrchestrator' /\ arActive' = {})]_vars

====
